---------------------------- MODULE Spec2Model ----------------------------
(***************************************************************************)
(* A model of the detection core of sloppy: the Detector orchestrator      *)
(* (detector.py), the syntax-tree walker ASTAnalyzer (ast_analyzer.py),    *)
(* the rule abstraction (patterns/base.py, patterns/noise.py) and the      *)
(* import classification tables (analyzers/import_validator.py).           *)
(***************************************************************************)
EXTENDS Integers, Sequences, FiniteSets, Bags, TLC

(***************************************************************************)
(* Bounds of the model.                                                    *)
(***************************************************************************)
\* number of nested blocks wrapped around the generated part of a walked tree
MaxPre == 3
\* number of generated nodes below the wrapping blocks
MaxNodes == 3

(***************************************************************************)
(* Generic helpers.                                                        *)
(***************************************************************************)
Min(S) == CHOOSE x \in S : \A y \in S : x <= y

RECURSIVE SortedSeq(_)
SortedSeq(S) == IF S = {} THEN <<>>
                ELSE <<Min(S)>> \o SortedSeq(S \ {Min(S)})

Last(s) == s[Len(s)]

RECURSIVE SeqToBag(_)
SeqToBag(s) == IF s = <<>> THEN EmptyBag
               ELSE SetToBag({Head(s)}) (+) SeqToBag(Tail(s))

(***************************************************************************)
(* Severity (patterns/base.py) and its ranking (detector.py).              *)
(***************************************************************************)
Severity == {"critical", "high", "medium", "low"}

\* a table that also knows the names in capital letters
SEVERITY_ORDER_any_case(name) ==
    CASE name \in {"low", "LOW"} -> 0
      [] name \in {"medium", "MEDIUM"} -> 1
      [] name \in {"high", "HIGH"} -> 2
      [] name \in {"critical", "CRITICAL"} -> 3
      [] OTHER -> 0

\* SEVERITY_ORDER.get(name, 0)
SEVERITY_ORDER(name) ==
    CASE name = "low" -> 0
      [] name = "medium" -> 1
      [] name = "high" -> 2
      [] name = "critical" -> 3
      [] OTHER -> 0

(***************************************************************************)
(* Syntax trees.  A tree is the preorder sequence of its nodes; a node     *)
(* carries its kind, its level in the tree (the root has level 0), its     *)
(* line and column, and the ids of the rules whose check_node reports a    *)
(* finding on it.                                                          *)
(***************************************************************************)
\* the node kinds for which ASTAnalyzer defines a visit_<Kind> method
PlainVisitKinds == {"FunctionDef", "AsyncFunctionDef", "ClassDef", "ExceptHandler",
                    "ImportFrom", "Import", "Call", "Attribute"}

NestedBlockKinds == {"If", "For", "While", "With", "Try"}

DispatchedKinds == PlainVisitKinds \cup NestedBlockKinds

Children(tree, n) ==
    SortedSeq({m \in (n + 1)..Len(tree) :
                  /\ tree[m].level = tree[n].level + 1
                  /\ \A j \in (n + 1)..(m - 1) : tree[j].level > tree[n].level})

Parent(tree, m) ==
    IF tree[m].level = 0 THEN 0
    ELSE CHOOSE j \in 1..(m - 1) :
            /\ tree[j].level = tree[m].level - 1
            /\ \A i \in (j + 1)..(m - 1) : tree[i].level > tree[j].level

\* getattr(node, "lineno", 0): a Module node has no position
NodeLine(node) == IF node.kind = "Module" THEN 0 ELSE node.line

NodeCol(node) == IF node.kind = "Module" THEN 0 ELSE node.col

(***************************************************************************)
(* Rules (patterns/base.py).  A rule has an id and a severity; a tree      *)
(* rule has check_node and node_types, a line rule has check_line.         *)
(***************************************************************************)
DebugPrint ==
    [id |-> "debug_print", severity |-> "medium", axis |-> "noise",
     message |-> "Debug print statement - remove before production",
     has_check_node |-> TRUE, node_types |-> {"Call"}, has_check_line |-> FALSE]

DebugBreakpoint ==
    [id |-> "debug_breakpoint", severity |-> "high", axis |-> "noise",
     message |-> "Debug breakpoint - remove before production",
     has_check_node |-> FALSE, node_types |-> {}, has_check_line |-> TRUE]

GenericDocstring ==
    [id |-> "generic_docstring", severity |-> "low", axis |-> "noise",
     message |-> "Generic docstring provides no useful information",
     has_check_node |-> FALSE, node_types |-> {}, has_check_line |-> TRUE]

\* a rule known from the tests only: a bare handler clause is critical
BareExcept ==
    [id |-> "bare_except", severity |-> "critical", axis |-> "structure",
     message |-> "Bare except clause",
     has_check_node |-> TRUE, node_types |-> {"ExceptHandler"}, has_check_line |-> FALSE]

\* a tree rule that keeps ASTPattern's default node_types = (): it is run on
\* every dispatched node
AnyNodePattern ==
    [id |-> "any_node", severity |-> "low", axis |-> "style",
     message |-> "Structural pattern",
     has_check_node |-> TRUE, node_types |-> {}, has_check_line |-> FALSE]

\* get_all_patterns(): the catalog, in registration order
AllPatterns == <<DebugPrint, DebugBreakpoint, GenericDocstring, BareExcept, AnyNodePattern>>

NoRule == "<none>"

\* Issue(...) as built by BasePattern.create_issue
create_issue(rule, file, line, column) ==
    [pattern_id |-> rule.id, severity |-> rule.severity, axis |-> rule.axis,
     file |-> file, line |-> line, column |-> column, message |-> <<rule.message>>]

\* BasePattern.create_issue_from_node
create_issue_from_node(rule, node, file) ==
    create_issue(rule, file, NodeLine(node), NodeCol(node))

\* pattern.check_node(node, file, source_lines): the rule's findings on a node
check_node(rule, node, file) ==
    IF rule.id \in node.hits THEN <<create_issue_from_node(rule, node, file)>> ELSE <<>>

\* a misbehaving rule raises where it would have reported
Raises(rule, node, bad) == rule.id = bad /\ rule.id \in node.hits

(***************************************************************************)
(* State.                                                                  *)
(***************************************************************************)
VARIABLES
    \* Detector (detector.py)
    ignore_patterns,     \* Detector.ignore_patterns
    include_patterns,    \* Detector.include_patterns
    disabled_patterns,   \* Detector.disabled_patterns
    min_severity,        \* Detector.min_severity
    min_severity_level,  \* Detector.min_severity_level
    patterns,            \* Detector.patterns: the enabled rules
    fs,                  \* the file system the scan reads
    paths,               \* the argument of scan
    path_i,              \* position of scan's loop over paths
    work,                \* files of the current path still to scan
    cur_file,            \* the file _scan_file_with_content is working on
    issues,              \* scan's local list of findings
    file_contents,       \* scan's local list of (path, content)
    cross_runs,          \* calls of find_cross_file_duplicates, with their arguments
    collected,           \* the findings scan had collected when it began to filter
    candidates,          \* the candidate files of the scan so far, in order
    result,              \* what scan returned
    pc,                  \* position of scan
    \* ASTAnalyzer (ast_analyzer.py)
    an_file,             \* ASTAnalyzer.file
    an_tree,             \* the tree given to analyze
    an_patterns,         \* ASTAnalyzer.patterns
    an_issues,           \* ASTAnalyzer.issues
    nesting_depth,       \* ASTAnalyzer.nesting_depth
    visit_stack,         \* the open visit calls: node and children still to visit
    an_pc,               \* position of the analyzer
    calls,               \* check_node invocations so far: <<node, rule id>>
    bad_rule,            \* id of a rule whose check_node / check_line raises, or NoRule
    \* import classification (import_validator.py)
    imp,                 \* a call of validate_import
    hm,                  \* calls of check_hallucinated_method
    \* DebugPrint (patterns/noise.py)
    dp,                  \* check_node of DebugPrint over the calls of a file
    \* find_duplicates (duplicate_finder.py)
    dup                  \* a run of extract_functions and find_duplicates

detector_vars == <<ignore_patterns, include_patterns, disabled_patterns, min_severity, min_severity_level, patterns>>
scan_vars == <<fs, paths, path_i, work, cur_file, issues, file_contents, cross_runs, collected, candidates, result, pc>>
walk_vars == <<an_file, an_tree, an_patterns, an_issues, nesting_depth, visit_stack, an_pc, calls>>
vars == <<detector_vars, scan_vars, walk_vars, bad_rule, imp, hm, dp, dup>>

(***************************************************************************)
(* ASTAnalyzer: the tree walker.                                           *)
(***************************************************************************)
\* the nesting depth above which the walker reports deep nesting
MaxNestingDepth == 4

\* the walker's built-in finding (_visit_nested_block)
DeepNestingIssue(node, file, depth) ==
    [pattern_id |-> "deep_nesting", severity |-> "medium", axis |-> "style",
     file |-> file, line |-> NodeLine(node), column |-> NodeCol(node),
     message |-> <<"Code nested", depth, "levels deep - consider refactoring">>]

\* a depth check that is off by one
deep_nesting_check_from_threshold(node, file, depth) ==
    IF depth >= MaxNestingDepth THEN <<DeepNestingIssue(node, file, depth)>> ELSE <<>>

\* the check of _visit_nested_block on the depth just entered
deep_nesting_check(node, file, depth) ==
    IF depth > MaxNestingDepth THEN <<DeepNestingIssue(node, file, depth)>> ELSE <<>>

\* a dispatch that ignores node_types
Applies_to_every_kind(rule, kind) == rule.has_check_node

\* does _check_patterns run this rule on a node of this kind
Applies(rule, kind) ==
    /\ rule.has_check_node
    /\ (rule.node_types = {} \/ kind \in rule.node_types)

RECURSIVE check_patterns_from(_, _, _, _, _, _)
\* ASTAnalyzer._check_patterns from the i-th rule on: the findings appended, the
\* invocations made, and whether a rule raised (which ends the loop)
check_patterns_from(i, pats, n, tree, file, bad) ==
    IF i > Len(pats) THEN [issues |-> <<>>, calls |-> <<>>, raised |-> FALSE]
    ELSE IF ~Applies(pats[i], tree[n].kind)
         THEN check_patterns_from(i + 1, pats, n, tree, file, bad)
    ELSE IF Raises(pats[i], tree[n], bad)
         THEN [issues |-> <<>>, calls |-> <<<<n, pats[i].id>>>>, raised |-> TRUE]
    ELSE LET rest == check_patterns_from(i + 1, pats, n, tree, file, bad)
         IN  [issues |-> check_node(pats[i], tree[n], file) \o rest.issues,
              calls  |-> <<<<n, pats[i].id>>>> \o rest.calls,
              raised |-> rest.raised]

check_patterns(pats, n, tree, file, bad) == check_patterns_from(1, pats, n, tree, file, bad)

\* generic_visit(node): visit every child, in order
generic_visit(n, tree) == [node |-> n, todo |-> Children(tree, n)]

\* visit_FunctionDef .. visit_Attribute: run the rules, then descend.  stk is
\* the stack of the open visit calls around this one.
visit_plain(n, stk) ==
    LET r == check_patterns(an_patterns, n, an_tree, an_file, bad_rule) IN
    /\ an_issues' = an_issues \o r.issues
    /\ calls' = calls \o r.calls
    /\ nesting_depth' = nesting_depth
    /\ IF r.raised
       THEN an_pc' = "raised" /\ visit_stack' = <<>>
       ELSE an_pc' = "walking" /\ visit_stack' = Append(stk, generic_visit(n, an_tree))

\* _visit_nested_block up to its descent into the children
visit_nested_block(n, stk) ==
    LET depth == nesting_depth + 1
        deep  == deep_nesting_check(an_tree[n], an_file, depth)
        r     == check_patterns(an_patterns, n, an_tree, an_file, bad_rule)
    IN
    /\ nesting_depth' = depth
    /\ an_issues' = an_issues \o deep \o r.issues
    /\ calls' = calls \o r.calls
    /\ IF r.raised
       THEN an_pc' = "raised" /\ visit_stack' = <<>>
       ELSE an_pc' = "walking" /\ visit_stack' = Append(stk, generic_visit(n, an_tree))

\* NodeVisitor.visit for a kind without a visit method: generic_visit
visit_other(n, stk) ==
    /\ visit_stack' = Append(stk, generic_visit(n, an_tree))
    /\ an_pc' = "walking"
    /\ UNCHANGED <<an_issues, calls, nesting_depth>>

\* NodeVisitor.visit(node): dispatch on the node's kind
visit(n, stk) ==
    IF an_tree[n].kind \in NestedBlockKinds THEN visit_nested_block(n, stk)
    ELSE IF an_tree[n].kind \in PlainVisitKinds THEN visit_plain(n, stk)
    ELSE visit_other(n, stk)

\* analyze(tree): visit the root
Analyze ==
    /\ an_pc = "constructed"
    /\ visit(1, <<>>)
    /\ UNCHANGED <<an_file, an_tree, an_patterns>>
    /\ UNCHANGED <<detector_vars, scan_vars, bad_rule, imp, hm, dp, dup>>

\* generic_visit's loop: visit the next child of the innermost open node
VisitChild ==
    /\ an_pc = "walking"
    /\ visit_stack # <<>>
    /\ Last(visit_stack).todo # <<>>
    /\ LET top  == Last(visit_stack)
           rest == SubSeq(visit_stack, 1, Len(visit_stack) - 1)
       IN  visit(Head(top.todo), Append(rest, [top EXCEPT !.todo = Tail(@)]))
    /\ UNCHANGED <<an_file, an_tree, an_patterns>>
    /\ UNCHANGED <<detector_vars, scan_vars, bad_rule, imp, hm, dp, dup>>

\* a block that does not give its level back
leave_without_decrement(n) == nesting_depth

\* the end of a visit call: generic_visit has no child left.  A nested block
\* gives its level back; when the root's visit ends, analyze returns.
leave(n) ==
    IF an_tree[n].kind \in NestedBlockKinds THEN nesting_depth - 1 ELSE nesting_depth

LeaveNode ==
    /\ an_pc = "walking"
    /\ visit_stack # <<>>
    /\ Last(visit_stack).todo = <<>>
    /\ nesting_depth' = leave(Last(visit_stack).node)
    /\ visit_stack' = SubSeq(visit_stack, 1, Len(visit_stack) - 1)
    /\ an_pc' = IF Len(visit_stack) = 1 THEN "returned" ELSE "walking"
    /\ UNCHANGED <<an_file, an_tree, an_patterns, an_issues, calls>>
    /\ UNCHANGED <<detector_vars, scan_vars, bad_rule, imp, hm, dp, dup>>

NextWalk == Analyze \/ VisitChild \/ LeaveNode

(***************************************************************************)
(* The trees a walk is checked on: a chain of nested blocks wrapped around *)
(* a generated tree.                                                       *)
(***************************************************************************)
\* the kinds the generated nodes are drawn from; a Call has no statement below it
WalkKinds == {"While", "FunctionDef", "ClassDef", "Call"}

LeafKinds == {"Call"}

\* the rules that report on a generated node of each kind
WalkHits(kind) ==
    CASE kind = "Call" -> {"debug_print", "any_node"}
      [] kind = "ClassDef" -> {"any_node"}
      [] kind = "While" -> {"any_node"}
      [] OTHER -> {}

WalkNode(kind, level, line) ==
    [kind |-> kind, level |-> level, line |-> line, col |-> 4 * (level - 1),
     hits |-> WalkHits(kind)]

\* the wrapping chain uses the five kinds of nested block in turn
ChainKind(i) == <<"If", "For", "While", "With", "Try">>[((i - 1) % 5) + 1]

Chain(pre) == <<[kind |-> "Module", level |-> 0, line |-> 0, col |-> 0, hits |-> {}]>>
              \o [i \in 1..pre |-> WalkNode(ChainKind(i), i, i)]

RECURSIVE Extensions(_, _, _)
\* the trees that extend t by at most k nodes at a level above base
Extensions(t, k, base) ==
    {t} \cup
    IF k = 0 THEN {}
    ELSE UNION { Extensions(Append(t, WalkNode(kd, l, Len(t))), k - 1, base) :
                    kd \in WalkKinds,
                    l \in (base + 1)..(IF Last(t).kind \in LeafKinds
                                       THEN Last(t).level ELSE Last(t).level + 1) }

\* the longest chain of if / elif branches
MaxElif == 6

\* ast.parse of "if ..: call() elif ..: call() ..." with n branches written
\* at column 0: the If of each elif is the last child of the If before it and
\* has its column; each branch holds a call
ElifChain(n) ==
    <<[kind |-> "Module", level |-> 0, line |-> 0, col |-> 0, hits |-> {}]>>
    \o [k \in 1..(2 * n) |->
           IF k % 2 = 1
           THEN [kind |-> "If", level |-> (k + 1) \div 2, line |-> k, col |-> 0, hits |-> {}]
           ELSE [kind |-> "Call", level |-> (k \div 2) + 1, line |-> k, col |-> 4,
                 hits |-> {}]]

WalkTrees ==
    UNION { Extensions(Chain(pre), MaxNodes, pre) : pre \in 0..MaxPre }
    \cup {ElifChain(n) : n \in 1..MaxElif}

\* the rule lists a walk is checked with: the catalog, and the catalog without
\* the print rule
WalkPatterns == {AllPatterns, SelectSeq(AllPatterns, LAMBDA p : p.id # "debug_print")}

ScanIdle ==
    /\ ignore_patterns = <<>>
    /\ include_patterns = <<>>
    /\ disabled_patterns = {}
    /\ min_severity = "low"
    /\ min_severity_level = 0
    /\ patterns = AllPatterns
    /\ fs = <<>>
    /\ paths = <<>>
    /\ path_i = 0
    /\ work = <<>>
    /\ cur_file = 0
    /\ issues = <<>>
    /\ file_contents = <<>>
    /\ cross_runs = <<>>
    /\ collected = <<>>
    /\ candidates = <<>>
    /\ result = <<>>
    /\ pc = "idle"

ImpIdle == imp = [pc |-> "idle"]
HmIdle == hm = [pc |-> "idle"]
DpIdle == dp = [pc |-> "idle"]
DupIdle == dup = [pc |-> "idle"]

\* ASTAnalyzer(file, source, patterns), before analyze(tree)
InitWalk ==
    /\ ScanIdle
    /\ ImpIdle
    /\ HmIdle
    /\ DpIdle
    /\ DupIdle
    /\ an_file = 1
    /\ an_tree \in WalkTrees
    /\ an_patterns \in WalkPatterns
    /\ an_issues = <<>>
    /\ nesting_depth = 0
    /\ visit_stack = <<>>
    /\ an_pc = "constructed"
    /\ calls = <<>>
    /\ bad_rule \in {NoRule, "any_node"}

SpecWalk == InitWalk /\ [][NextWalk]_vars

(***************************************************************************)
(* The files a scan reads.  A file's text is one of a few contents; a      *)
(* content carries what the passes of the scan read off it: its tree, the  *)
(* matches of the line rules on each line, its imports and the uses of     *)
(* names, its dead code and its function bodies.                           *)
(***************************************************************************)
Node(kind, level, line, col, hits) ==
    [kind |-> kind, level |-> level, line |-> line, col |-> col, hits |-> hits]

NoMatch == [matches |-> <<>>]

\* a name bound by an import statement: "import module", "import module as
\* asname", "from module import name" and "from module import name as asname";
\* an absent name or asname is the empty string, the name * is the wildcard
ImportedName(module, name, asname, line) ==
    [module |-> module, name |-> name, asname |-> asname, line |-> line]

\* an occurrence of a name outside the import statements: a plain reference,
\* the object of an attribute access, inside a type annotation, as a
\* decorator, or as a base class
NameUse(name, kind) == [name |-> name, kind |-> kind]

\* a file with five nested blocks around a print call, a bare handler, a
\* breakpoint, an unused import and a function
DeepContent ==
    [text   |-> "deep",
     tree   |-> << Node("Module", 0, 0, 0, {}),
                   Node("Import", 1, 1, 0, {}),
                   Node("FunctionDef", 1, 2, 0, {"any_node"}),
                   Node("If", 2, 3, 4, {}),
                   Node("For", 3, 4, 8, {}),
                   Node("While", 4, 5, 12, {}),
                   Node("With", 5, 6, 16, {}),
                   Node("Try", 6, 7, 20, {"any_node"}),
                   Node("Call", 7, 8, 24, {"debug_print"}),
                   Node("ExceptHandler", 7, 9, 20, {"bare_except"}) >>,
     lines  |-> << NoMatch, NoMatch,
                   [matches |-> <<[rule |-> "generic_docstring", col |-> 4]>>],
                   NoMatch, NoMatch, NoMatch, NoMatch, NoMatch, NoMatch,
                   [matches |-> <<[rule |-> "debug_breakpoint", col |-> 24]>>] >>,
     imports |-> << ImportedName(<<"os">>, "", "", 1),
                    ImportedName(<<"numpy">>, "", "np", 1),
                    ImportedName(<<"typing">>, "List", "", 1),
                    ImportedName(<<"xml", "dom">>, "", "", 1) >>,
     uses   |-> << NameUse("np", "attribute"), NameUse("List", "annotation"),
                   NameUse("xml", "attribute") >>,
     dead   |-> << [line |-> 10] >>,
     funcs  |-> << [name |-> "load", line |-> 2, normalized |-> "body1"] >>]

\* a file with a copy of that function under another name, and a print call
CopyContent ==
    [text   |-> "copy",
     tree   |-> << Node("Module", 0, 0, 0, {}),
                   Node("FunctionDef", 1, 1, 0, {}),
                   Node("Call", 2, 2, 4, {"debug_print", "any_node"}) >>,
     lines  |-> << NoMatch,
                   [matches |-> <<[rule |-> "debug_breakpoint", col |-> 4],
                                  [rule |-> "debug_breakpoint", col |-> 20]>>] >>,
     imports |-> << ImportedName(<<"functools">>, "lru_cache", "", 1),
                    ImportedName(<<"abc">>, "ABC", "", 1),
                    ImportedName(<<"pandas">>, "", "pd", 1),
                    ImportedName(<<"json">>, "loads", "", 1),
                    ImportedName(<<"glob">>, "*", "", 1) >>,
     uses   |-> << NameUse("lru_cache", "decorator"), NameUse("ABC", "base"),
                   NameUse("loads", "name"), NameUse("pandas", "name") >>,
     dead   |-> <<>>,
     funcs  |-> << [name |-> "fetch", line |-> 1, normalized |-> "body1"] >>]

\* the empty file: it parses, and its text is the empty string
EmptyContent ==
    [text   |-> "",
     tree   |-> << Node("Module", 0, 0, 0, {}) >>,
     lines  |-> <<>>,
     imports |-> <<>>,
     uses   |-> <<>>,
     dead   |-> <<>>,
     funcs  |-> <<>>]

\* a text that does not parse; a breakpoint call stands on its second line
BrokenContent ==
    [text   |-> "broken",
     tree   |-> << Node("Module", 0, 0, 0, {}) >>,
     lines  |-> << NoMatch, [matches |-> <<[rule |-> "debug_breakpoint", col |-> 0]>>] >>,
     imports |-> <<>>,
     uses   |-> <<>>,
     dead   |-> <<>>,
     funcs  |-> <<>>]

\* paths: 1 and 2 are Python files, 3 is a text file, Dir is a directory that
\* holds the three, Missing is neither a file nor a directory
Files == {1, 2, 3}
Dir == 0
Missing == 9
PathNames == Files \cup {Dir, Missing}

Suffix(f) == IF f = 3 THEN ".txt" ELSE ".py"

TextOf(f) == IF f = 1 THEN "deep" ELSE "copy"

\* ast.parse(content) and the other readings of a text that parses
Parse(text) ==
    CASE text = "deep" -> DeepContent
      [] text = "copy" -> CopyContent
      [] text = "broken" -> BrokenContent
      [] OTHER -> EmptyContent

\* what reading and parsing a file gives: its text, or the error raised
FileStates(f) ==
    IF Suffix(f) # ".py" THEN {[status |-> "ok", text |-> "notes"]}
    ELSE {[status |-> "ok", text |-> TextOf(f)],
          [status |-> "ok", text |-> ""],
          [status |-> "OSError", text |-> ""],
          [status |-> "UnicodeDecodeError", text |-> ""],
          [status |-> "SyntaxError", text |-> "broken"],
          [status |-> "RecursionError", text |-> "huge"]}

FileSystems == {f \in [Files -> UNION {FileStates(x) : x \in Files}] :
                   \A x \in Files : f[x] \in FileStates(x)}

is_file(path) == path \in Files
is_dir(path) == path = Dir

RECURSIVE Perms(_)
Perms(S) == IF S = {} THEN {<<>>}
            ELSE UNION {{<<x>> \o p : p \in Perms(S \ {x})} : x \in S}

\* path.rglob("*.py"): the Python files below a directory, in the order the
\* file system lists them
rglob(path) == Perms({f \in Files : Suffix(f) = ".py"})

(***************************************************************************)
(* Detector.                                                               *)
(***************************************************************************)
\* path.match(pattern) and _match_glob(path, pattern): a pattern is given by
\* the files it matches either way
path_match(f, pattern) == f \in pattern.match
match_glob(f, pattern) == f \in pattern.glob

\* Detector._should_scan
should_scan(f, ignore, include) ==
    IF Suffix(f) # ".py" THEN FALSE
    ELSE IF \E i \in 1..Len(ignore) : path_match(f, ignore[i]) THEN FALSE
    ELSE IF include # <<>>
            /\ ~\E i \in 1..Len(include) :
                   path_match(f, include[i]) \/ match_glob(f, include[i])
         THEN FALSE
    ELSE TRUE

\* a cross-file condition that needs one file only
runs_cross_file_on_any(disabled, contents) ==
    "duplicate_code" \notin disabled /\ Len(contents) > 0

\* _scan_file_with_content returns no finding and no content when the file
\* cannot be read or decoded (OSError, UnicodeDecodeError) or does not parse
\* (SyntaxError)
returns_early(file_state) ==
    file_state.status \in {"OSError", "UnicodeDecodeError", "SyntaxError"}

\* ast.parse also fails with exceptions that are no SyntaxError (RecursionError
\* on a deeply nested expression): the except clause does not name them, and
\* they leave _scan_file_with_content and scan
parse_raises(file_state) ==
    file_state.status \notin {"ok", "OSError", "UnicodeDecodeError", "SyntaxError"}

\* the condition under which scan runs the cross-file analysis
runs_cross_file(disabled, contents) ==
    "duplicate_code" \notin disabled /\ Len(contents) > 1

\* a constructor that does not look at the disable list
enabled_patterns_all(disabled) == AllPatterns

\* Detector.__init__: the enabled rules
enabled_patterns(disabled) == SelectSeq(AllPatterns, LAMBDA p : p.id \notin disabled)

\* RegexPattern.check_line: one finding for each match of the rule on the line
check_line(rule, line, lineno, file) ==
    LET ms == SelectSeq(line.matches, LAMBDA m : m.rule = rule.id)
    IN  [i \in 1..Len(ms) |-> create_issue(rule, file, lineno, ms[i].col)]

RECURSIVE check_lines_from(_, _, _, _)
check_lines_from(rule, lines, lineno, file) ==
    IF lineno > Len(lines) THEN <<>>
    ELSE check_line(rule, lines[lineno], lineno, file)
         \o check_lines_from(rule, lines, lineno + 1, file)

line_raises(rule, lines, bad) ==
    /\ rule.id = bad
    /\ \E i \in 1..Len(lines) : \E j \in 1..Len(lines[i].matches) :
          lines[i].matches[j].rule = rule.id

RECURSIVE line_patterns_from(_, _, _, _, _)
\* the line-rule loop of _scan_file_with_content from the i-th rule on
line_patterns_from(i, pats, lines, file, bad) ==
    IF i > Len(pats) THEN [issues |-> <<>>, raised |-> FALSE]
    ELSE IF ~pats[i].has_check_line THEN line_patterns_from(i + 1, pats, lines, file, bad)
    ELSE IF line_raises(pats[i], lines, bad) THEN [issues |-> <<>>, raised |-> TRUE]
    ELSE LET rest == line_patterns_from(i + 1, pats, lines, file, bad)
         IN  [issues |-> check_lines_from(pats[i], lines, 1, file) \o rest.issues,
              raised |-> rest.raised]

FileLevelIssue(id, sev, file, line, msg) ==
    [pattern_id |-> id, severity |-> sev, axis |-> "structure",
     file |-> file, line |-> line, column |-> 0, message |-> msg]

\* the name an import binds: the alias if there is one, else the imported
\* name, else the first part of the module path
bound_name(imported) ==
    IF imported.asname # "" THEN imported.asname
    ELSE IF imported.name # "" THEN imported.name
    ELSE imported.module[1]

\* is the name bound by the import referenced anywhere in the file; every
\* kind of occurrence counts
is_used(imported, uses) ==
    \E k \in 1..Len(uses) : uses[k].name = bound_name(imported)

\* find_unused_imports(path, content): one finding for each imported name
\* without a use; a wildcard import is not tracked
find_unused_imports(file, content) ==
    LET unused == SelectSeq(content.imports,
                            LAMBDA m : m.name # "*" /\ ~is_used(m, content.uses))
    IN  [i \in 1..Len(unused) |->
            FileLevelIssue("unused_import", "low", file, unused[i].line,
                           <<"Unused import '", bound_name(unused[i]), "'">>)]

\* find_dead_code(path, content)
find_dead_code(file, content) ==
    [i \in 1..Len(content.dead) |->
        FileLevelIssue("dead_code", "medium", file, content.dead[i].line, <<"Dead code">>)]

\* a run that takes the switch of the dead-code pass for both passes
file_level_by_one_switch(file, content, disabled) ==
    IF "dead_code" \notin disabled
    THEN find_unused_imports(file, content) \o find_dead_code(file, content)
    ELSE <<>>

\* the run of the file-level analyzers in _scan_file_with_content
file_level(file, content, disabled) ==
    (IF "unused_import" \notin disabled THEN find_unused_imports(file, content) ELSE <<>>)
    \o (IF "dead_code" \notin disabled THEN find_dead_code(file, content) ELSE <<>>)

RECURSIVE all_functions(_)
\* the functions of every file handed to the cross-file pass
all_functions(contents) ==
    IF contents = <<>> THEN <<>>
    ELSE LET c == Head(contents)
             fn == Parse(c[2]).funcs
         IN  [i \in 1..Len(fn) |->
                 [name |-> fn[i].name, file |-> c[1],
                  line |-> fn[i].line, normalized |-> fn[i].normalized]]
             \o all_functions(Tail(contents))

\* find_cross_file_duplicates(file_contents): one finding for each pair of
\* functions of different identity whose bodies are the same
find_cross_file_duplicates(contents) ==
    LET fns   == all_functions(contents)
        pairs == {p \in (1..Len(fns)) \X (1..Len(fns)) :
                     /\ p[1] < p[2]
                     /\ ~(fns[p[1]].file = fns[p[2]].file /\ fns[p[1]].name = fns[p[2]].name)
                     /\ fns[p[1]].normalized = fns[p[2]].normalized}
        order == SortedSeq({p[1] * (Len(fns) + 1) + p[2] : p \in pairs})
    IN  [k \in 1..Len(order) |->
            LET a == fns[order[k] \div (Len(fns) + 1)]
                b == fns[order[k] % (Len(fns) + 1)]
            IN  FileLevelIssue("duplicate_code", "high", a.file, a.line,
                               <<"Duplicate function", b.file, b.name>>)]

\* a sort key that leaves the line out
sort_key_without_line(i) == <<0 - SEVERITY_ORDER(i.severity), i.file, 0>>

\* the key scan sorts by: severity (critical first), then file, then line
sort_key(i) == <<0 - SEVERITY_ORDER(i.severity), i.file, i.line>>

\* tuple comparison: a < b or a = b
key_le(a, b) ==
    \/ a[1] < b[1]
    \/ a[1] = b[1] /\ a[2] < b[2]
    \/ a[1] = b[1] /\ a[2] = b[2] /\ a[3] <= b[3]

\* list.sort(key=...): a stable sort; x goes behind the elements whose key is
\* at most its key
insert_sorted(sorted, x) ==
    LET k == Cardinality({j \in 1..Len(sorted) : key_le(sort_key(sorted[j]), sort_key(x))})
    IN  SubSeq(sorted, 1, k) \o <<x>> \o SubSeq(sorted, k + 1, Len(sorted))

RECURSIVE sort_issues(_)
sort_issues(s) ==
    IF s = <<>> THEN <<>>
    ELSE insert_sorted(sort_issues(SubSeq(s, 1, Len(s) - 1)), Last(s))

\* a filter that also drops the findings at the floor
keeps_above(i, level) == SEVERITY_ORDER(i.severity) > level

\* the severity filter of scan
keeps(i, level) == SEVERITY_ORDER(i.severity) >= level

filter_issues(s, level) == SelectSeq(s, LAMBDA i : keeps(i, level))

(***************************************************************************)
(* The scans checked: configurations, file systems and path lists.         *)
(***************************************************************************)
\* length of the path list given to scan
MaxPaths == 2

DisabledChoices == {{}, {"deep_nesting"}, {"unused_import"}, {"dead_code"},
                    {"duplicate_code"}, {"debug_print", "no_such_rule"}}

SeverityNames == {"low", "medium", "high", "critical", "HIGH"}

Config(ignore, include, disabled, sev) ==
    [ignore |-> ignore, include |-> include, disabled |-> disabled, min_severity |-> sev]

DefaultConfig == Config(<<>>, <<>>, {}, "low")

Configs ==
    {Config(<<>>, <<>>, d, sv) : d \in DisabledChoices, sv \in SeverityNames}
    \cup {Config(<<[match |-> {2}, glob |-> {}]>>, <<>>, {}, "low"),
          Config(<<>>, <<[match |-> {}, glob |-> {1}]>>, {}, "low")}

AllOk == [f \in Files |-> [status |-> "ok",
                           text |-> IF Suffix(f) = ".py" THEN TextOf(f) ELSE "notes"]]

BadRules == {"any_node", "debug_breakpoint"}

\* a scan is checked with every configuration on the readable files, with
\* every state of the files under the default configuration, and with a
\* misbehaving rule
Scenarios ==
    {[cfg |-> c, fs |-> AllOk, bad |-> NoRule] : c \in Configs}
    \cup {[cfg |-> DefaultConfig, fs |-> f, bad |-> NoRule] : f \in FileSystems}
    \cup {[cfg |-> DefaultConfig, fs |-> AllOk, bad |-> b] : b \in BadRules}

RECURSIVE SeqsUpTo(_, _)
SeqsUpTo(S, n) == IF n = 0 THEN {<<>>}
                  ELSE SeqsUpTo(S, n - 1)
                       \cup {Append(q, x) : q \in SeqsUpTo(S, n - 1), x \in S}

PathLists == SeqsUpTo(PathNames, MaxPaths)

NoAnalyzer ==
    /\ an_file = 0
    /\ an_tree = <<>>
    /\ an_patterns = <<>>
    /\ an_issues = <<>>
    /\ nesting_depth = 0
    /\ visit_stack = <<>>
    /\ an_pc = "none"
    /\ calls = <<>>

\* Detector(ignore_patterns, include_patterns, disabled_patterns, min_severity)
Init ==
    \E sc \in Scenarios :
        /\ ignore_patterns = sc.cfg.ignore
        /\ include_patterns = sc.cfg.include
        /\ disabled_patterns = sc.cfg.disabled
        /\ min_severity = sc.cfg.min_severity
        /\ min_severity_level = SEVERITY_ORDER(sc.cfg.min_severity)
        /\ patterns = enabled_patterns(sc.cfg.disabled)
        /\ fs = sc.fs
        /\ bad_rule = sc.bad
        /\ paths = <<>>
        /\ path_i = 0
        /\ work = <<>>
        /\ cur_file = 0
        /\ issues = <<>>
        /\ file_contents = <<>>
        /\ cross_runs = <<>>
        /\ collected = <<>>
        /\ candidates = <<>>
        /\ result = <<>>
        /\ pc = "ready"
        /\ NoAnalyzer
        /\ ImpIdle
        /\ HmIdle
        /\ DpIdle
        /\ DupIdle

\* scan(paths): the locals are set up
Scan ==
    /\ pc = "ready"
    /\ \E ps \in PathLists : paths' = ps
    /\ path_i' = 1
    /\ work' = <<>>
    /\ issues' = <<>>
    /\ file_contents' = <<>>
    /\ candidates' = <<>>
    /\ pc' = "loop"
    /\ UNCHANGED <<fs, cur_file, cross_runs, collected, result>>
    /\ UNCHANGED <<detector_vars, walk_vars, bad_rule, imp, hm, dp, dup>>

\* the loop over paths: a file is itself to scan, a directory gives its
\* Python files, anything else is passed over
NextPath ==
    /\ pc = "loop"
    /\ work = <<>>
    /\ path_i <= Len(paths)
    /\ work' \in (IF is_file(paths[path_i]) THEN {<<paths[path_i]>>}
                  ELSE IF is_dir(paths[path_i]) THEN rglob(paths[path_i])
                  ELSE {<<>>})
    /\ path_i' = path_i + 1
    /\ UNCHANGED <<fs, paths, cur_file, issues, file_contents, cross_runs, collected,
                   candidates, result, pc>>
    /\ UNCHANGED <<detector_vars, walk_vars, bad_rule, imp, hm, dp, dup>>

\* one list of findings shared by the analyzers of all files
analyzer_issues_shared == issues

\* ASTAnalyzer.__init__: the analyzer of a file starts with its own empty list
\* of findings
analyzer_issues == <<>>

\* _should_scan and the start of _scan_file_with_content: read the file and
\* parse it, or return no finding and no content; then build the analyzer
ScanFile ==
    /\ pc = "loop"
    /\ work # <<>>
    /\ work' = Tail(work)
    /\ candidates' = Append(candidates, Head(work))
    /\ LET f == Head(work) IN
       IF should_scan(f, ignore_patterns, include_patterns) /\ parse_raises(fs[f])
       THEN /\ cur_file' = f
            /\ pc' = "raised"
            /\ UNCHANGED walk_vars
       ELSE
       IF should_scan(f, ignore_patterns, include_patterns) /\ ~returns_early(fs[f])
       THEN /\ cur_file' = f
            /\ an_file' = f
            /\ an_tree' = Parse(fs[f].text).tree
            /\ an_patterns' = patterns
            /\ an_issues' = analyzer_issues
            /\ nesting_depth' = 0
            /\ visit_stack' = <<>>
            /\ calls' = <<>>
            /\ an_pc' = "constructed"
            /\ pc' = "analyze"
       ELSE UNCHANGED <<cur_file, walk_vars, pc>>
    /\ UNCHANGED <<fs, paths, path_i, issues, file_contents, cross_runs, collected, result>>
    /\ UNCHANGED <<detector_vars, bad_rule, imp, hm, dp, dup>>

\* the rest of _scan_file_with_content once analyze has returned (the line
\* rules, the file-level analyzers), and what scan does with its result
FileDone ==
    /\ pc = "analyze"
    /\ an_pc = "returned"
    /\ LET text == fs[cur_file].text
           lr   == line_patterns_from(1, patterns, Parse(text).lines, cur_file, bad_rule)
       IN  IF lr.raised
           THEN /\ pc' = "raised"
                /\ UNCHANGED <<issues, file_contents>>
           ELSE /\ issues' = issues \o an_issues \o lr.issues
                                \o file_level(cur_file, Parse(text), disabled_patterns)
                /\ file_contents' = IF text # "" THEN Append(file_contents, <<cur_file, text>>)
                                    ELSE file_contents
                /\ pc' = "loop"
    /\ an_file' = 0
    /\ an_tree' = <<>>
    /\ an_patterns' = <<>>
    /\ an_issues' = <<>>
    /\ nesting_depth' = 0
    /\ visit_stack' = <<>>
    /\ calls' = <<>>
    /\ an_pc' = "none"
    /\ UNCHANGED <<fs, paths, path_i, work, cur_file, cross_runs, collected, candidates,
                   result>>
    /\ UNCHANGED <<detector_vars, bad_rule, imp, hm, dp, dup>>

\* an exception of a rule leaves analyze, _scan_file_with_content and scan
ScanRaise ==
    /\ pc = "analyze"
    /\ an_pc = "raised"
    /\ pc' = "raised"
    /\ UNCHANGED <<fs, paths, path_i, work, cur_file, issues, file_contents, cross_runs,
                   collected, candidates, result>>
    /\ UNCHANGED <<detector_vars, walk_vars, bad_rule, imp, hm, dp, dup>>

\* after the loop: the cross-file analysis
CrossFile ==
    /\ pc = "loop"
    /\ work = <<>>
    /\ path_i > Len(paths)
    /\ IF runs_cross_file(disabled_patterns, file_contents)
       THEN /\ issues' = issues \o find_cross_file_duplicates(file_contents)
            /\ cross_runs' = Append(cross_runs, file_contents)
       ELSE UNCHANGED <<issues, cross_runs>>
    /\ pc' = "filter"
    /\ UNCHANGED <<fs, paths, path_i, work, cur_file, file_contents, collected, candidates,
                   result>>
    /\ UNCHANGED <<detector_vars, walk_vars, bad_rule, imp, hm, dp, dup>>

\* the filter by severity
FilterIssues ==
    /\ pc = "filter"
    /\ collected' = issues
    /\ issues' = filter_issues(issues, min_severity_level)
    /\ pc' = "sort"
    /\ UNCHANGED <<fs, paths, path_i, work, cur_file, file_contents, cross_runs, candidates,
                   result>>
    /\ UNCHANGED <<detector_vars, walk_vars, bad_rule, imp, hm, dp, dup>>

\* the sort, and the return
SortIssues ==
    /\ pc = "sort"
    /\ issues' = sort_issues(issues)
    /\ result' = issues'
    /\ pc' = "returned"
    /\ UNCHANGED <<fs, paths, path_i, work, cur_file, file_contents, cross_runs, collected,
                   candidates>>
    /\ UNCHANGED <<detector_vars, walk_vars, bad_rule, imp, hm, dp, dup>>

Next ==
    \/ Scan \/ NextPath \/ ScanFile \/ FileDone \/ ScanRaise
    \/ CrossFile \/ FilterIssues \/ SortIssues
    \/ Analyze \/ VisitChild \/ LeaveNode

Spec == Init /\ [][Next]_vars

(***************************************************************************)
(* Import classification (analyzers/import_validator.py).  A module path   *)
(* is the sequence of its dot-separated parts.                             *)
(***************************************************************************)
\* Python's None, as a table value, a missing symbol and a result
None == "<None>"

Entry(module, name, value) == [module |-> module, name |-> name, value |-> value]

\* KNOWN_HALLUCINATIONS: (module, name) -> error message (None means valid)
KNOWN_HALLUCINATIONS == {
    Entry(<<"requests">>, "JSONResponse",
          "JSONResponse is from starlette.responses or fastapi.responses, not requests"),
    Entry(<<"requests">>, "Response",
          None),
    Entry(<<"flask">>, "Query",
          "Query is from fastapi, not flask"),
    Entry(<<"flask">>, "Depends",
          "Depends is from fastapi, not flask"),
    Entry(<<"flask">>, "HTTPException",
          None),
    Entry(<<"django">>, "FastAPI",
          "FastAPI is its own package, not part of django"),
    Entry(<<"django">>, "APIRouter",
          "APIRouter is from fastapi, not django"),
    Entry(<<"typing">>, "Required",
          "Required is from typing_extensions (Python <3.11)"),
    Entry(<<"typing">>, "NotRequired",
          "NotRequired is from typing_extensions (Python <3.11)"),
    Entry(<<"typing">>, "Self",
          "Self is from typing_extensions (Python <3.11)"),
    Entry(<<"typing">>, "TypeGuard",
          "TypeGuard is in typing (3.10+) or typing_extensions"),
    Entry(<<"typing">>, "ParamSpec",
          None),
    Entry(<<"collections">>, "dataclass",
          "dataclass is from dataclasses, not collections"),
    Entry(<<"typing">>, "dataclass",
          "dataclass is from dataclasses, not typing"),
    Entry(<<"attrs">>, "dataclass",
          "dataclass is from dataclasses; attrs uses @attr.s or @define"),
    Entry(<<"dataclasses">>, "BaseModel",
          "BaseModel is from pydantic, not dataclasses"),
    Entry(<<"typing">>, "BaseModel",
          "BaseModel is from pydantic, not typing"),
    Entry(<<"dataclasses">>, "Field",
          None),
    Entry(<<"asyncio">>, "aiohttp",
          "aiohttp is its own package, not part of asyncio"),
    Entry(<<"asyncio">>, "httpx",
          "httpx is its own package, not part of asyncio"),
    Entry(<<"async">>, "await",
          "async/await are keywords, not importable"),
    Entry(<<"os">>, "makedirectory",
          "Use os.makedirs() not os.makedirectory()"),
    Entry(<<"os">>, "makedir",
          "Use os.mkdir() or os.makedirs(), not os.makedir()"),
    Entry(<<"os", "path">>, "Path",
          "Path is from pathlib, not os.path"),
    Entry(<<"pathlib">>, "mkdirs",
          "Use Path.mkdir(parents=True), not mkdirs()"),
    Entry(<<"json">>, "JSONEncoder",
          None),
    Entry(<<"json">>, "parse",
          "Use json.loads() not json.parse() (JavaScript pattern)"),
    Entry(<<"json">>, "stringify",
          "Use json.dumps() not json.stringify() (JavaScript pattern)"),
    Entry(<<"utils">>, None,
          "Generic 'utils' is not a standard package - likely meant local module"),
    Entry(<<"helpers">>, None,
          "Generic 'helpers' is not a standard package - likely meant local module"),
    Entry(<<"common">>, None,
          "Generic 'common' is not a standard package - likely meant local module"),
    Entry(<<"unittest">>, "fixture",
          "fixture is from pytest, not unittest"),
    Entry(<<"unittest">>, "mark",
          "mark is from pytest, not unittest"),
    Entry(<<"pytest">>, "TestCase",
          "TestCase is from unittest, not pytest"),
    Entry(<<"urllib">>, "get",
          "Use urllib.request.urlopen() or requests.get(), not urllib.get()"),
    Entry(<<"urllib">>, "post",
          "Use urllib.request.urlopen() or requests.post(), not urllib.post()"),
    Entry(<<"http">>, "get",
          "Use http.client or requests for HTTP requests"),
    Entry(<<"logging">>, "log",
          None),
    Entry(<<"logger">>, None,
          "'logger' is not a module - use 'logging'"),
    Entry(<<"sqlalchemy">>, "Model",
          "Model is from flask_sqlalchemy, SQLAlchemy uses declarative_base()"),
    Entry(<<"sqlalchemy">>, "db",
          "db is typically a Flask-SQLAlchemy instance, not from sqlalchemy")
}

\* KNOWN_HALLUCINATIONS.get((module, name)): None for a key that is absent
known_get(module, name) ==
    IF \E e \in KNOWN_HALLUCINATIONS : e.module = module /\ e.name = name
    THEN (CHOOSE e \in KNOWN_HALLUCINATIONS : e.module = module /\ e.name = name).value
    ELSE None

\* check_known_hallucination(module, name)
check_known_hallucination(module, name) ==
    LET exact       == known_get(module, name)
        module_only == known_get(module, None)
    IN  IF exact # None THEN exact
        ELSE IF module_only # None THEN module_only
        ELSE None

\* STDLIB_MODULES, as far as the modules of the model go
STDLIB_MODULES == {"asyncio", "collections", "dataclasses", "http", "json", "logging",
                   "os", "pathlib", "typing", "unittest", "urllib"}

\* what importlib.util.find_spec does for a name: it returns a spec or None,
\* or it raises
FindSpecOutcomes == {"spec", "None", "ModuleNotFoundError", "ValueError", "ImportError",
                     "AttributeError"}

FindSpecRaises(outcome) == outcome \notin {"spec", "None"}

\* module_exists(module_name), with find_spec's outcome in the host environment
module_exists(module_name, outcome) ==
    LET base == module_name[1] IN
    IF base \in STDLIB_MODULES THEN TRUE
    ELSE IF outcome \in {"ModuleNotFoundError", "ValueError", "ImportError", "AttributeError"}
         THEN FALSE
    ELSE outcome # "None"

\* the message validate_import builds for a module that does not exist
DoesNotExist(module_name) == <<"Module", module_name, "does not exist">>

\* validate_import(module_name, name): an error message, or None
validate_import(module_name, name, outcome) ==
    LET hallucination_msg == check_known_hallucination(module_name, name)
        base_module       == <<module_name[1]>>
    IN  IF name \notin {None, ""} /\ hallucination_msg # None
        THEN <<hallucination_msg>>
        ELSE IF ~module_exists(base_module, outcome) THEN DoesNotExist(module_name)
        ELSE <<None>>

\* the imports classified: every module and symbol of the table, and some others
ImportModules == {e.module : e \in KNOWN_HALLUCINATIONS}
                 \cup {<<"numpy">>, <<"__main__">>, <<"flask", "views">>}

ImportNames == {e.name : e \in KNOWN_HALLUCINATIONS} \cup {None, "", "Other"}

InitImport ==
    /\ ScanIdle
    /\ NoAnalyzer
    /\ bad_rule = NoRule
    /\ HmIdle
    /\ DpIdle
    /\ DupIdle
    /\ \E m \in ImportModules, n \in ImportNames, o \in FindSpecOutcomes :
          imp = [pc |-> "call", module |-> m, name |-> n, find_spec |-> o,
                 result |-> <<>>]

ValidateImport ==
    /\ imp.pc = "call"
    /\ imp' = [imp EXCEPT !.pc = "done",
                          !.result = validate_import(imp.module, imp.name, imp.find_spec)]
    /\ UNCHANGED <<detector_vars, scan_vars, walk_vars, bad_rule, hm, dp, dup>>

NextImport == ValidateImport

SpecImport == InitImport /\ [][NextImport]_vars

(***************************************************************************)
(* Method names (import_validator.py): HALLUCINATED_METHODS and            *)
(* check_hallucinated_method.                                              *)
(***************************************************************************)
MethodItem(name, correct, hint) == [name |-> name, correct |-> correct, hint |-> hint]

\* the items of the dict display HALLUCINATED_METHODS, in the order written:
\* method name, (correct replacement or None, hint or None)
HALLUCINATED_METHODS_ITEMS ==
    <<
        MethodItem("titlecase",
                   "title",
                   "str.title()"),
        MethodItem("uppercase",
                   "upper",
                   "str.upper()"),
        MethodItem("lowercase",
                   "lower",
                   "str.lower()"),
        MethodItem("trimStart",
                   "lstrip",
                   "str.lstrip() - JavaScript pattern"),
        MethodItem("trimEnd",
                   "rstrip",
                   "str.rstrip() - JavaScript pattern"),
        MethodItem("trim",
                   "strip",
                   "str.strip() - JavaScript pattern"),
        MethodItem("charAt",
                   "[]",
                   "Use indexing s[i] not s.charAt(i) - JavaScript pattern"),
        MethodItem("indexOf",
                   "find",
                   "str.find() or 'in' operator - JavaScript pattern"),
        MethodItem("lastIndexOf",
                   "rfind",
                   "str.rfind() - JavaScript pattern"),
        MethodItem("substring",
                   "[]",
                   "Use slicing s[start:end] - JavaScript pattern"),
        MethodItem("substr",
                   "[]",
                   "Use slicing s[start:start+length] - JavaScript pattern"),
        MethodItem("includes",
                   "in",
                   "Use 'in' operator - JavaScript pattern"),
        MethodItem("repeat",
                   "*",
                   "Use s * n for repetition - JavaScript pattern"),
        MethodItem("padStart",
                   "rjust",
                   "str.rjust() or str.zfill() - JavaScript pattern"),
        MethodItem("padEnd",
                   "ljust",
                   "str.ljust() - JavaScript pattern"),
        MethodItem("toUpperCase",
                   "upper",
                   "str.upper() - JavaScript pattern"),
        MethodItem("toLowerCase",
                   "lower",
                   "str.lower() - JavaScript pattern"),
        MethodItem("toString",
                   "str",
                   "Use str() builtin - JavaScript pattern"),
        MethodItem("push",
                   "append",
                   "list.append() - JavaScript pattern"),
        MethodItem("unshift",
                   "insert",
                   "list.insert(0, x) - JavaScript pattern"),
        MethodItem("shift",
                   "pop",
                   "list.pop(0) - JavaScript pattern"),
        MethodItem("splice",
                   "[]",
                   "Use slicing/del for splice - JavaScript pattern"),
        MethodItem("slice",
                   "[]",
                   "Use slicing list[start:end] - JavaScript pattern"),
        MethodItem("concat",
                   "+",
                   "Use + or extend() - JavaScript pattern"),
        MethodItem("forEach",
                   "for",
                   "Use for loop - JavaScript pattern"),
        MethodItem("map",
                   "list comprehension",
                   "Use [f(x) for x in list] or map()"),
        MethodItem("filter",
                   "list comprehension",
                   "Use [x for x in list if cond] or filter()"),
        MethodItem("reduce",
                   "functools.reduce",
                   "Use functools.reduce()"),
        MethodItem("find",
                   "next",
                   "Use next(x for x in list if cond) or list comprehension"),
        MethodItem("findIndex",
                   "next",
                   "Use next(i for i,x in enumerate(list) if cond)"),
        MethodItem("some",
                   "any",
                   "Use any(cond for x in list)"),
        MethodItem("every",
                   "all",
                   "Use all(cond for x in list)"),
        MethodItem("flat",
                   "itertools.chain",
                   "Use itertools.chain.from_iterable()"),
        MethodItem("flatMap",
                   "itertools.chain",
                   "Use chain.from_iterable(f(x) for x in list)"),
        MethodItem("length",
                   "len",
                   "Use len(list) not list.length - JavaScript pattern"),
        MethodItem("size",
                   "len",
                   "Use len(obj) not obj.size()"),
        MethodItem("hasOwnProperty",
                   "in",
                   "Use 'key in dict' - JavaScript pattern"),
        MethodItem("keys",
                   None,
                   None),
        MethodItem("values",
                   None,
                   None),
        MethodItem("entries",
                   "items",
                   "dict.items() - JavaScript pattern"),
        MethodItem("assign",
                   "update",
                   "dict.update() or {**d1, **d2} - JavaScript pattern"),
        MethodItem("freeze",
                   None,
                   "Python dicts are mutable; use types.MappingProxyType"),
        MethodItem("typeof",
                   "type",
                   "Use type() or isinstance() - JavaScript pattern"),
        MethodItem("instanceof",
                   "isinstance",
                   "Use isinstance() - JavaScript pattern"),
        MethodItem("equals",
                   "==",
                   "Use == for equality - Java pattern"),
        MethodItem("equalsIgnoreCase",
                   "lower",
                   "Use s1.lower() == s2.lower() - Java pattern"),
        MethodItem("compareTo",
                   "<>",
                   "Use comparison operators - Java pattern"),
        MethodItem("println",
                   "print",
                   "Use print() - Java pattern"),
        MethodItem("printf",
                   "print",
                   "Use print() or f-string - Java pattern"),
        MethodItem("charAt",
                   "[]",
                   "Use indexing s[i] - Java/JavaScript pattern"),
        MethodItem("getClass",
                   "type",
                   "Use type() or __class__ - Java pattern"),
        MethodItem("hashCode",
                   "hash",
                   "Use hash() builtin - Java pattern"),
        MethodItem("isEmpty",
                   "not",
                   "Use 'not obj' or 'len(obj) == 0' - Java pattern"),
        MethodItem("contains",
                   "in",
                   "Use 'in' operator - Java pattern"),
        MethodItem("startsWith",
                   "startswith",
                   "Use str.startswith() - Java pattern"),
        MethodItem("endsWith",
                   "endswith",
                   "Use str.endswith() - Java pattern"),
        MethodItem("toCharArray",
                   "list",
                   "Use list(s) - Java pattern"),
        MethodItem("getBytes",
                   "encode",
                   "Use str.encode() - Java pattern"),
        MethodItem("each",
                   "for",
                   "Use for loop - Ruby pattern"),
        MethodItem("each_with_index",
                   "enumerate",
                   "Use enumerate() - Ruby pattern"),
        MethodItem("collect",
                   "list comprehension",
                   "Use [f(x) for x in list] - Ruby pattern"),
        MethodItem("select",
                   "list comprehension",
                   "Use [x for x in list if cond] - Ruby pattern"),
        MethodItem("reject",
                   "list comprehension",
                   "Use [x for x in list if not cond] - Ruby pattern"),
        MethodItem("detect",
                   "next",
                   "Use next(x for x in list if cond) - Ruby pattern"),
        MethodItem("inject",
                   "functools.reduce",
                   "Use functools.reduce() - Ruby pattern"),
        MethodItem("first",
                   "[0]",
                   "Use [0] indexing - Ruby pattern"),
        MethodItem("last",
                   "[-1]",
                   "Use [-1] indexing - Ruby pattern"),
        MethodItem("chomp",
                   "strip",
                   "Use str.strip() - Ruby pattern"),
        MethodItem("chop",
                   "[:-1]",
                   "Use slicing s[:-1] - Ruby pattern"),
        MethodItem("gsub",
                   "replace",
                   "Use str.replace() or re.sub() - Ruby pattern"),
        MethodItem("sub",
                   "replace",
                   "Use str.replace() or re.sub() - Ruby pattern"),
        MethodItem("split",
                   None,
                   None),
        MethodItem("join",
                   None,
                   None),
        MethodItem("reverse",
                   None,
                   None),
        MethodItem("upcase",
                   "upper",
                   "Use str.upper() - Ruby pattern"),
        MethodItem("downcase",
                   "lower",
                   "Use str.lower() - Ruby pattern"),
        MethodItem("capitalize",
                   None,
                   None),
        MethodItem("empty?",
                   "not",
                   "Use 'not obj' or 'len(obj) == 0' - Ruby pattern"),
        MethodItem("nil?",
                   "is None",
                   "Use 'is None' - Ruby pattern"),
        MethodItem("include?",
                   "in",
                   "Use 'in' operator - Ruby pattern"),
        MethodItem("present?",
                   "bool",
                   "Use bool(obj) or 'if obj:' - Ruby/Rails pattern"),
        MethodItem("blank?",
                   "not",
                   "Use 'not obj' - Ruby/Rails pattern"),
        MethodItem("Println",
                   "print",
                   "Use print() - Go fmt pattern"),
        MethodItem("Printf",
                   "print",
                   "Use print() or f-string - Go fmt pattern"),
        MethodItem("Sprintf",
                   "format",
                   "Use f-string or str.format() - Go fmt pattern"),
        MethodItem("Error",
                   "Exception",
                   "Use raise Exception() - Go pattern"),
        MethodItem("Errorf",
                   "Exception",
                   "Use raise Exception(f'...') - Go pattern"),
        MethodItem("make",
                   None,
                   "Use [] for list, {} for dict - Go pattern"),
        MethodItem("append",
                   None,
                   None),
        MethodItem("len",
                   None,
                   None),
        MethodItem("cap",
                   None,
                   "Python lists grow dynamically - Go pattern"),
        MethodItem("Length",
                   "len",
                   "Use len(obj) - C# pattern"),
        MethodItem("Count",
                   "len",
                   "Use len(obj) - C# pattern"),
        MethodItem("Add",
                   "append",
                   "Use list.append() - C# pattern"),
        MethodItem("Remove",
                   "remove",
                   "Use list.remove() - C# pattern"),
        MethodItem("Contains",
                   "in",
                   "Use 'in' operator - C# pattern"),
        MethodItem("IndexOf",
                   "index",
                   "Use list.index() or str.find() - C# pattern"),
        MethodItem("ToLower",
                   "lower",
                   "Use str.lower() - C# pattern"),
        MethodItem("ToUpper",
                   "upper",
                   "Use str.upper() - C# pattern"),
        MethodItem("Trim",
                   "strip",
                   "Use str.strip() - C# pattern"),
        MethodItem("Split",
                   "split",
                   "Use str.split() - C# pattern"),
        MethodItem("Join",
                   "join",
                   "Use str.join() or ''.join() - C# pattern"),
        MethodItem("Replace",
                   "replace",
                   "Use str.replace() - C# pattern"),
        MethodItem("Substring",
                   "[]",
                   "Use slicing s[start:end] - C# pattern"),
        MethodItem("StartsWith",
                   "startswith",
                   "Use str.startswith() - C# pattern"),
        MethodItem("EndsWith",
                   "endswith",
                   "Use str.endswith() - C# pattern"),
        MethodItem("WriteLine",
                   "print",
                   "Use print() - C# pattern"),
        MethodItem("ReadLine",
                   "input",
                   "Use input() - C# pattern"),
        MethodItem("Parse",
                   None,
                   "Use int(), float(), etc. - C# pattern"),
        MethodItem("TryParse",
                   None,
                   "Use try/except with int(), float() - C# pattern"),
        MethodItem("ToString",
                   "str",
                   "Use str() builtin - C# pattern"),
        MethodItem("echo",
                   "print",
                   "Use print() - PHP pattern"),
        MethodItem("var_dump",
                   "print",
                   "Use print() or pprint - PHP pattern"),
        MethodItem("print_r",
                   "print",
                   "Use print() or pprint - PHP pattern"),
        MethodItem("isset",
                   "is not None",
                   "Use 'is not None' or 'in' - PHP pattern"),
        MethodItem("unset",
                   "del",
                   "Use del statement - PHP pattern"),
        MethodItem("array_push",
                   "append",
                   "Use list.append() - PHP pattern"),
        MethodItem("array_pop",
                   "pop",
                   "Use list.pop() - PHP pattern"),
        MethodItem("array_merge",
                   "+",
                   "Use + or extend() - PHP pattern"),
        MethodItem("array_keys",
                   "keys",
                   "Use dict.keys() - PHP pattern"),
        MethodItem("array_values",
                   "values",
                   "Use dict.values() - PHP pattern"),
        MethodItem("count",
                   "len",
                   "Use len() - PHP pattern"),
        MethodItem("strlen",
                   "len",
                   "Use len() - PHP pattern"),
        MethodItem("strpos",
                   "find",
                   "Use str.find() - PHP pattern"),
        MethodItem("str_replace",
                   "replace",
                   "Use str.replace() - PHP pattern"),
        MethodItem("explode",
                   "split",
                   "Use str.split() - PHP pattern"),
        MethodItem("implode",
                   "join",
                   "Use str.join() - PHP pattern"),
        MethodItem("strtolower",
                   "lower",
                   "Use str.lower() - PHP pattern"),
        MethodItem("strtoupper",
                   "upper",
                   "Use str.upper() - PHP pattern"),
        MethodItem("trim",
                   "strip",
                   "Use str.strip() - PHP pattern"),
        MethodItem("substr",
                   "[]",
                   "Use slicing s[start:end] - PHP pattern"),
        MethodItem("preg_match",
                   "re.search",
                   "Use re.search() - PHP pattern"),
        MethodItem("preg_replace",
                   "re.sub",
                   "Use re.sub() - PHP pattern"),
        MethodItem("file_get_contents",
                   "open",
                   "Use open().read() - PHP pattern"),
        MethodItem("file_put_contents",
                   "open",
                   "Use open().write() - PHP pattern"),
        MethodItem("json_encode",
                   "json.dumps",
                   "Use json.dumps() - PHP pattern"),
        MethodItem("json_decode",
                   "json.loads",
                   "Use json.loads() - PHP pattern"),
        MethodItem("len",
                   None,
                   None),
        MethodItem("print",
                   None,
                   None),
        MethodItem("sorted",
                   None,
                   None),
        MethodItem("reversed",
                   None,
                   None)
>>

\* the dict the display builds: of two items with one key the later one stays
HALLUCINATED_METHODS ==
    {HALLUCINATED_METHODS_ITEMS[k] : k \in
        {i \in 1..Len(HALLUCINATED_METHODS_ITEMS) :
            \A j \in (i + 1)..Len(HALLUCINATED_METHODS_ITEMS) :
                HALLUCINATED_METHODS_ITEMS[j].name # HALLUCINATED_METHODS_ITEMS[i].name}}

\* a lookup that takes the value without its hint for a missing replacement
check_hallucinated_method_by_hint(method_name) ==
    IF \A e \in HALLUCINATED_METHODS : e.name # method_name THEN <<None>>
    ELSE LET e == CHOOSE e \in HALLUCINATED_METHODS : e.name = method_name
         IN  IF e.hint = None THEN <<None>>
             ELSE <<"'", method_name, "' is not a Python method. ", e.hint>>

\* check_hallucinated_method(method_name): None, or the message
\* f"'{method_name}' is not a Python method. {hint}" in its parts
check_hallucinated_method(method_name) ==
    IF \A e \in HALLUCINATED_METHODS : e.name # method_name THEN <<None>>
    ELSE LET e == CHOOSE e \in HALLUCINATED_METHODS : e.name = method_name
         IN  IF e.correct = None THEN <<None>>
             ELSE <<"'", method_name, "' is not a Python method. ", e.hint>>

\* how many calls are made with one name
MaxCalls == 2

\* the names asked about: every key of the table, and names it does not hold
MethodNames == {HALLUCINATED_METHODS_ITEMS[i].name : i \in 1..Len(HALLUCINATED_METHODS_ITEMS)}
               \cup {"append", "strip", "", "Push"}

InitMethod ==
    /\ ScanIdle
    /\ NoAnalyzer
    /\ bad_rule = NoRule
    /\ ImpIdle
    /\ DpIdle
    /\ DupIdle
    /\ \E n \in MethodNames : hm = [pc |-> "call", name |-> n, results |-> <<>>]

CheckHallucinatedMethod ==
    /\ hm.pc = "call"
    /\ Len(hm.results) < MaxCalls
    /\ hm' = [hm EXCEPT !.results = Append(hm.results, check_hallucinated_method(hm.name))]
    /\ UNCHANGED <<detector_vars, scan_vars, walk_vars, bad_rule, imp, dp, dup>>

NextMethod == CheckHallucinatedMethod

SpecMethod == InitMethod /\ [][NextMethod]_vars

(***************************************************************************)
(* DebugPrint.check_node (patterns/noise.py).  A source line is its        *)
(* leading whitespace and its stripped text; the texts are those below,    *)
(* and the string tests of the code are tabulated for them.                *)
(***************************************************************************)
Line(indent, text) == [indent |-> indent, text |-> text]

GuardText == "if __name__ == \"__main__\":"
GuardLikeText == "if __name__ == entry_name:"

LineTexts == {GuardText, GuardLikeText, "def run():", "async def run():", "class Job:",
              "print(\"x\")", "out.print(\"y\")", "pprint(\"z\")", "x = 1",
              "import os", "import click", "from rich import print", "import firebase",
              "# from argparse docs"}

\* text.startswith(prefix), for the prefixes the code tests
startswith(text, prefix) ==
    CASE prefix = "if __name__" -> text \in {GuardText, GuardLikeText}
      [] prefix = "def " -> text = "def run():"
      [] prefix = "class " -> text = "class Job:"
      [] OTHER -> FALSE

\* sub in text, for the substrings the code tests
contains(text, sub) ==
    <<text, sub>> \in {<<GuardText, "__main__">>,
                       <<"import click", "import click">>,
                       <<"from rich import print", "from rich">>,
                       <<"import firebase", "import fire">>,
                       <<"# from argparse docs", "from argparse">>}

\* source_lines[i].strip()
strip(line) == line.text

\* source_lines[i].startswith(" ")
starts_with_space(line) == line.indent = "    "

CLI_FILE_PATTERNS == {"cli.py", "__main__.py", "main.py", "console.py", "commands.py"}
CLI_DIR_PATTERNS == {"scripts", "bin", "cli", "commands"}
CLI_IMPORTS == {"click", "typer", "argparse", "fire", "rich"}

\* f"import {cli_import}" and f"from {cli_import}"
ImportText(cli_import) ==
    CASE cli_import = "click" -> "import click"
      [] cli_import = "typer" -> "import typer"
      [] cli_import = "argparse" -> "import argparse"
      [] cli_import = "fire" -> "import fire"
      [] cli_import = "rich" -> "import rich"

FromText(cli_import) ==
    CASE cli_import = "click" -> "from click"
      [] cli_import = "typer" -> "from typer"
      [] cli_import = "argparse" -> "from argparse"
      [] cli_import = "fire" -> "from fire"
      [] cli_import = "rich" -> "from rich"

\* the number of lines range(lineno - 1, max(lineno - 100, -1), -1) reaches back
ScanBack == 100

Max(a, b) == IF a >= b THEN a ELSE b

\* does the line hold the main guard, as the loop of _is_in_main_block tests it
is_guard_line(line) ==
    startswith(strip(line), "if __name__") /\ contains(strip(line), "__main__")

\* a definition test that takes indented definitions too
is_def_line_any_indent(line) ==
    startswith(strip(line), "def ") \/ startswith(strip(line), "class ")

\* does the line end the loop of _is_in_main_block with False
is_def_line(line) ==
    /\ (startswith(strip(line), "def ") \/ startswith(strip(line), "class "))
    /\ ~starts_with_space(line)

\* the loop of _is_in_main_block over the indexes (counted from 0) from i down
\* to stop, stop excluded: the first line met that is a guard or a definition
\* decides, and no such line gives False
main_block_scan(source_lines, i, stop) ==
    LET scanned == {j \in (stop + 1)..i : j >= 0 /\ j < Len(source_lines)}
        ends    == {j \in scanned : \/ is_guard_line(source_lines[j + 1])
                                    \/ is_def_line(source_lines[j + 1])}
    IN  IF ends = {} THEN FALSE
        ELSE is_guard_line(source_lines[(CHOOSE j \in ends : \A m \in ends : m <= j) + 1])

\* DebugPrint._is_in_main_block(node, source_lines)
is_in_main_block(node, source_lines) ==
    LET lineno == NodeLine(node) IN
    IF lineno <= 0 THEN FALSE
    ELSE main_block_scan(source_lines, lineno - 1, Max(lineno - ScanBack, 0 - 1))

\* the file is one of the CLI files by its name
in_cli_file(file) == file.name \in CLI_FILE_PATTERNS

\* a directory test that looks at the directory of the file only
in_cli_dir_of_parent(file) ==
    file.parents # <<>> /\ file.parents[1] \in CLI_DIR_PATTERNS

\* one of file.parents has a CLI directory name
in_cli_dir(file) == \E k \in 1..Len(file.parents) : file.parents[k] \in CLI_DIR_PATTERNS

\* the text of the file holds "import X" or "from X" for a CLI framework X
has_cli_import(source_lines) ==
    \E cli_import \in CLI_IMPORTS : \E k \in 1..Len(source_lines) :
        \/ contains(source_lines[k].text, ImportText(cli_import))
        \/ contains(source_lines[k].text, FromText(cli_import))

\* a test for print that takes any callee called print
is_print_call_by_id(node) == node.kind = "Call" /\ node.func.id = "print"

\* the test for a call of the bare name print
is_print_call(node) == node.kind = "Call" /\ node.func.is_name /\ node.func.id = "print"

\* DebugPrint.check_node(node, file, source_lines)
debug_print_check_node(node, file, source_lines) ==
    IF ~is_print_call(node) THEN <<>>
    ELSE IF in_cli_file(file) THEN <<>>
    ELSE IF in_cli_dir(file) THEN <<>>
    ELSE IF has_cli_import(source_lines) THEN <<>>
    ELSE IF is_in_main_block(node, source_lines) THEN <<>>
    ELSE <<create_issue_from_node(DebugPrint, node, file)>>

(***************************************************************************)
(* The files DebugPrint is run on: a header line, a line that is a main    *)
(* guard or not, filler, at most one definition line, filler, and four     *)
(* calls on four lines.                                                    *)
(***************************************************************************)
\* the longest run of filler lines
MaxFill == 98

Filler == Line("    ", "x = 1")

Fill(n) == [k \in 1..n |-> Filler]

HeaderTexts == {"import os", "import click", "from rich import print", "import firebase",
                "# from argparse docs"}

SecondLines == {Line("", GuardText), Line("", GuardLikeText), Line("", "x = 1")}

MidLines == {<<>>,
             <<Line("", "def run():")>>, <<Line("    ", "def run():")>>,
             <<Line("\t", "def run():")>>, <<Line("", "async def run():")>>,
             <<Line("", "class Job:")>>, <<Line("    ", "class Job:")>>}

Gaps == {0, MaxFill - 2, MaxFill - 1, MaxFill}

CallLines == <<Line("    ", "print(\"x\")"), Line("    ", "out.print(\"y\")"),
               Line("    ", "pprint(\"z\")"), Line("    ", "print(\"x\")")>>

SourceLines(header, second, gap1, mid, gap2) ==
    <<Line("", header), second>> \o Fill(gap1) \o mid \o Fill(gap2) \o CallLines

\* a Call node: its callee (a Name or not, and the identifier), lineno, col_offset
CallNode(is_name, id, line) ==
    [kind |-> "Call", func |-> [is_name |-> is_name, id |-> id], line |-> line, col |-> 4]

\* the calls of the file, in the order the walker meets them
CallNodes(first) ==
    <<CallNode(TRUE, "print", first), CallNode(FALSE, "print", first + 1),
      CallNode(TRUE, "pprint", first + 2), CallNode(TRUE, "print", first + 3)>>

\* a path: its name and the names of file.parents, nearest first
PrintFiles == {[name |-> n, parents |-> p] :
                  n \in {"app.py", "main.py", "Main.py"},
                  p \in {<<"src", "">>, <<"scripts", "">>, <<"tools", "bin", "">>}}

InitPrint ==
    /\ ScanIdle
    /\ NoAnalyzer
    /\ bad_rule = NoRule
    /\ ImpIdle
    /\ HmIdle
    /\ DupIdle
    /\ \E f \in PrintFiles, header \in HeaderTexts, second \in SecondLines,
          gap1 \in {0, 1}, mid \in MidLines, gap2 \in Gaps :
          dp = [pc |-> "check", file |-> f,
                source_lines |-> SourceLines(header, second, gap1, mid, gap2),
                nodes |-> CallNodes(2 + gap1 + Len(mid) + gap2 + 1),
                k |-> 1, issues |-> <<>>]

\* the analyzer calls check_node of DebugPrint on the next call of the file
DebugPrintCheckNode ==
    /\ dp.pc = "check"
    /\ dp' = [dp EXCEPT
                !.issues = dp.issues
                             \o debug_print_check_node(dp.nodes[dp.k], dp.file, dp.source_lines),
                !.k = dp.k + 1,
                !.pc = IF dp.k = Len(dp.nodes) THEN "done" ELSE "check"]
    /\ UNCHANGED <<detector_vars, scan_vars, walk_vars, bad_rule, imp, hm, dup>>

NextPrint == DebugPrintCheckNode

SpecPrint == InitPrint /\ [][NextPrint]_vars

(***************************************************************************)
(* Duplicate functions (analyzers/duplicate_finder.py).  A text is the     *)
(* sequence of its characters.                                             *)
(***************************************************************************)
Whitespace == {" ", "\t"}

\* s.strip()
str_strip(s) ==
    LET keep == {k \in 1..Len(s) : s[k] \notin Whitespace}
    IN  IF keep = {} THEN <<>>
        ELSE SubSeq(s, CHOOSE k \in keep : \A m \in keep : k <= m,
                       CHOOSE k \in keep : \A m \in keep : m <= k)

\* s.startswith(prefix)
has_prefix(s, prefix) == Len(s) >= Len(prefix) /\ SubSeq(s, 1, Len(prefix)) = prefix

RECURSIVE join_lines(_)
\* "\n".join(lines)
join_lines(lines) ==
    IF lines = <<>> THEN <<>>
    ELSE IF Len(lines) = 1 THEN lines[1]
    ELSE lines[1] \o <<"\n">> \o join_lines(Tail(lines))

\* a test that takes only a bare delimiter for a docstring line
keeps_line_but_bare_delimiter(stripped) ==
    /\ stripped # <<>>
    /\ ~has_prefix(stripped, <<"#">>)
    /\ stripped \notin {<<"\"", "\"", "\"">>, <<"'", "'", "'">>}

\* does normalize_function keep the stripped line
keeps_line(stripped) ==
    /\ stripped # <<>>
    /\ ~has_prefix(stripped, <<"#">>)
    /\ ~has_prefix(stripped, <<"\"", "\"", "\"">>)
    /\ ~has_prefix(stripped, <<"'", "'", "'">>)

\* normalize_function(source), the source given as its lines
normalize_function(source_lines) ==
    join_lines(SelectSeq([k \in 1..Len(source_lines) |-> str_strip(source_lines[k])],
                         keeps_line))

\* FunctionInfo(name, file, line, source, normalized)
FunctionInfo(name, file, line, source, normalized) ==
    [name |-> name, file |-> file, line |-> line, source |-> source,
     normalized |-> normalized]

\* the least length of a normalized text above which a function is extracted
MinNormalized == 50

\* an extraction that takes every function, whatever its length
is_non_trivial_any(normalized) == TRUE

\* len(normalized) > 50
is_non_trivial(normalized) == Len(normalized) > MinNormalized

\* extract_functions(file, source): source is the lines of the text, whether
\* ast.parse takes it, and the function definitions met by ast.walk with
\* their name, lineno and end_lineno
extract_functions(file, source) ==
    IF ~source.parses THEN <<>>
    ELSE LET infos == [k \in 1..Len(source.defs) |->
                         LET node       == source.defs[k]
                             func_lines == SubSeq(source.lines, node.lineno, node.end_lineno)
                         IN  FunctionInfo(node.name, file, node.lineno, func_lines,
                                          normalize_function(func_lines))]
         IN  SelectSeq(infos, LAMBDA f : is_non_trivial(f.normalized))

\* SequenceMatcher.find_longest_match(alo, ahi, blo, bhi), without junk (the
\* texts are shorter than 200 characters): the longest block a[i..i+k-1] =
\* b[j..j+k-1] inside the ranges, the one with the least i and then the least
\* j among the longest; indexes count from 1 and the ranges are closed
find_longest_match(a, b, alo, ahi, blo, bhi) ==
    LET starts == {p \in (alo..ahi) \X (blo..bhi) :
                      /\ a[p[1]] = b[p[2]]
                      /\ (p[1] = alo \/ p[2] = blo \/ a[p[1] - 1] # b[p[2] - 1])}
        size(p) == LET lim == Min({ahi - p[1], bhi - p[2]}) + 1
                       bad == {m \in 0..(lim - 1) : a[p[1] + m] # b[p[2] + m]}
                   IN  IF bad = {} THEN lim ELSE Min(bad)
        blocks == {<<p[1], p[2], size(p)>> : p \in starts}
    IN  IF blocks = {} THEN <<alo, blo, 0>>
        ELSE CHOOSE x \in blocks : \A y \in blocks :
                \/ x[3] > y[3]
                \/ x[3] = y[3] /\ x[1] < y[1]
                \/ x[3] = y[3] /\ x[1] = y[1] /\ x[2] <= y[2]

RECURSIVE matches(_, _, _, _, _, _)
\* the sum of the sizes of SequenceMatcher.get_matching_blocks()
matches(a, b, alo, ahi, blo, bhi) ==
    IF alo > ahi \/ blo > bhi THEN 0
    ELSE LET x == find_longest_match(a, b, alo, ahi, blo, bhi) IN
         IF x[3] = 0 THEN 0
         ELSE x[3] + matches(a, b, alo, x[1] - 1, blo, x[2] - 1)
                   + matches(a, b, x[1] + x[3], ahi, x[2] + x[3], bhi)

\* SequenceMatcher(None, a, b).ratio() as the fraction 2.0 * matches / length,
\* and 1.0 for two empty texts
ratio(a, b) ==
    IF Len(a) + Len(b) = 0 THEN <<1, 1>>
    ELSE <<2 * matches(a, b, 1, Len(a), 1, Len(b)), Len(a) + Len(b)>>

\* ratio >= threshold, both fractions
at_least(r, threshold) == r[1] * threshold[2] >= threshold[1] * r[2]

\* ord(c) for the characters of file names and function names
ord(c) ==
    CASE c = "0" -> 48 [] c = "1" -> 49 [] c = "4" -> 52 [] c = "5" -> 53
      [] c = "9" -> 57
      [] c = "a" -> 97 [] c = "b" -> 98 [] c = "c" -> 99 [] c = "d" -> 100
      [] c = "e" -> 101 [] c = "f" -> 102 [] c = "g" -> 103 [] c = "h" -> 104
      [] c = "i" -> 105 [] c = "l" -> 108 [] c = "m" -> 109 [] c = "n" -> 110
      [] c = "o" -> 111 [] c = "p" -> 112 [] c = "q" -> 113 [] c = "s" -> 115
      [] c = "t" -> 116 [] c = "y" -> 121

\* x <= y for two strings
str_le(x, y) ==
    LET n    == Min({Len(x), Len(y)})
        diff == {k \in 1..n : x[k] # y[k]}
    IN  IF diff = {} THEN Len(x) <= Len(y)
        ELSE ord(x[Min(diff)]) < ord(y[Min(diff)])

\* pair_key: (min, max) of str(file) + name of the two functions
pair_key(func_a, func_b) ==
    LET ka == func_a.file \o func_a.name
        kb == func_b.file \o func_b.name
    IN  IF str_le(ka, kb) THEN <<ka, kb>> ELSE <<kb, ka>>

\* a seen test that forgets what it saw
not_in_seen(key, seen) == FALSE

\* pair_key in seen
in_seen(key, seen) == key \in seen

\* DuplicatePair(func_a, func_b, similarity)
DuplicatePair(func_a, func_b, similarity) ==
    [func_a |-> func_a, func_b |-> func_b, similarity |-> similarity]

(***************************************************************************)
(* The inputs of find_duplicates: lists of functions with short texts, and *)
(* the functions extract_functions takes from two files.                   *)
(***************************************************************************)
\* a file with a function of some length and a trivial one
LoadLines ==
    <<<<"d", "e", "f", " ", "l", "o", "a", "d", "(", "x", ")", ":">>,
      <<" ", " ", " ", " ", "#", " ", "r", "e", "a", "d", " ", "t", "h", "e", " ", "v", "a", "l",
            "u", "e", "s">>,
      <<" ", " ", " ", " ", "\"", "\"", "\"", "L", "o", "a", "d", ".", "\"", "\"", "\"">>,
      <<" ", " ", " ", " ", "r", "e", "t", "u", "r", "n", " ", "t", "r", "a", "n", "s", "f", "o",
            "r", "m", "_", "v", "a", "l", "u", "e", "s", "(", "x", ",", " ", "1", ")", " ", "+",
            " ", "t", "r", "a", "n", "s", "f", "o", "r", "m", "_", "v", "a", "l", "u", "e", "s",
            "(", "x", ",", " ", "2", ")">>,
      <<>>,
      <<"d", "e", "f", " ", "t", "i", "n", "y", "(", "x", ")", ":">>,
      <<" ", " ", " ", " ", "r", "e", "t", "u", "r", "n", " ", "x">>>>

\* the same bodies, byte for byte, under other names
FetchLines ==
    <<<<"d", "e", "f", " ", "f", "e", "t", "c", "h", "(", "x", ")", ":">>,
      <<" ", " ", " ", " ", "#", " ", "r", "e", "a", "d", " ", "t", "h", "e", " ", "v", "a", "l",
            "u", "e", "s">>,
      <<" ", " ", " ", " ", "\"", "\"", "\"", "L", "o", "a", "d", ".", "\"", "\"", "\"">>,
      <<" ", " ", " ", " ", "r", "e", "t", "u", "r", "n", " ", "t", "r", "a", "n", "s", "f", "o",
            "r", "m", "_", "v", "a", "l", "u", "e", "s", "(", "x", ",", " ", "1", ")", " ", "+",
            " ", "t", "r", "a", "n", "s", "f", "o", "r", "m", "_", "v", "a", "l", "u", "e", "s",
            "(", "x", ",", " ", "2", ")">>,
      <<>>,
      <<"d", "e", "f", " ", "s", "m", "a", "l", "l", "(", "x", ")", ":">>,
      <<" ", " ", " ", " ", "r", "e", "t", "u", "r", "n", " ", "x">>>>

\* load again, written with other white space and without the comment
LoadCopyLines ==
    <<<<"d", "e", "f", " ", "l", "o", "a", "d", "(", "x", ")", ":">>,
      <<"\t", "r", "e", "t", "u", "r", "n", " ", "t", "r", "a", "n", "s", "f", "o", "r", "m",
            "_", "v", "a", "l", "u", "e", "s", "(", "x", ",", " ", "1", ")", " ", "+", " ", "t",
            "r", "a", "n", "s", "f", "o", "r", "m", "_", "v", "a", "l", "u", "e", "s", "(", "x",
            ",", " ", "2", ")", " ", " ">>>>

FunctionNode(name, lineno, end_lineno) ==
    [name |-> name, lineno |-> lineno, end_lineno |-> end_lineno]

LoadSource ==
    [lines |-> LoadLines, parses |-> TRUE,
     defs |-> <<FunctionNode(<<"l", "o", "a", "d">>, 1, 4), FunctionNode(<<"t", "i", "n", "y">>, 6, 7)>>]

FetchSource ==
    [lines |-> FetchLines, parses |-> TRUE,
     defs |-> <<FunctionNode(<<"f", "e", "t", "c", "h">>, 1, 4), FunctionNode(<<"s", "m", "a", "l", "l">>, 6, 7)>>]

LoadCopySource ==
    [lines |-> LoadCopyLines, parses |-> TRUE,
     defs |-> <<FunctionNode(<<"l", "o", "a", "d">>, 1, 2)>>]

\* a file with functions whose normalized texts have 49, 50 and 51 characters,
\* with docstrings of one and of several lines, a comment and a blank line
EdgeLines ==
    <<<<"d", "e", "f", " ", "e", "4", "9", "(", "x", ")", ":">>,
      <<" ", " ", " ", " ", "'", "'", "'", "S", "u", "m", "'", "'", "'", " ">>,
      <<" ", " ", " ", " ", "r", "e", "t", "u", "r", "n", " ", "x", " ", "+", " ", "x", " ", "+",
            " ", "x", " ", "+", " ", "x", " ", "+", " ", "x", " ", "+", " ", "x", " ", "+", " ",
            "x", " ", "+", " ", "x", "1">>,
      <<>>,
      <<"d", "e", "f", " ", "e", "5", "0", "(", "x", ")", ":">>,
      <<" ", " ", " ", " ", "\"", "\"", "\"", "S", "u", "m", " ", "u", "p", ".", "\"", "\"", "\"">>,
      <<" ", " ", " ", " ", "r", "e", "t", "u", "r", "n", " ", "x", " ", "+", " ", "x", " ", "+",
            " ", "x", " ", "+", " ", "x", " ", "+", " ", "x", " ", "+", " ", "x", " ", "+", " ",
            "x", " ", "+", " ", "x", "1", "1", " ", " ">>,
      <<>>,
      <<"a", "s", "y", "n", "c", " ", "d", "e", "f", " ", "e", "5", "1", "(", "x", ")", ":">>,
      <<" ", " ", " ", " ", "'", "'", "'">>,
      <<" ", " ", " ", " ", "S", "u", "m", ".">>,
      <<" ", " ", " ", " ", "'", "'", "'">>,
      <<" ", " ", " ", " ", "#", " ", "n", "o", "t", "e">>,
      <<" ", " ", "\t", " ">>,
      <<" ", " ", " ", " ", "r", "e", "t", "u", "r", "n", " ", "x", " ", "+", " ", "x", " ", "+",
            " ", "x", " ", "+", " ", "x", " ", "+", " ", "x", " ", "+", "1", "1">>>>

EdgeSource ==
    [lines |-> EdgeLines, parses |-> TRUE,
     defs |-> <<FunctionNode(<<"e", "4", "9">>, 1, 3), FunctionNode(<<"e", "5", "0">>, 5, 7),
            FunctionNode(<<"e", "5", "1">>, 9, 15)>>]

\* a text ast.parse refuses
BrokenSource == [lines |-> <<<<"d", "e", "f", " ", "l", "o", "a", "d", "(", "x", ":">>>>, parses |-> FALSE, defs |-> <<>>]

Sources == {LoadSource, FetchSource, LoadCopySource, EdgeSource, BrokenSource}

\* functions with short texts: two methods f of two classes of file a (lines 1
\* and 9), functions f and g of file b, and a function bf of file a next to a
\* function f of file ab, whose str(file) + name are the same, and functions
\* p and q of file c whose texts have the letters of one word in two orders
ShortFunctions ==
    {FunctionInfo(<<"f">>, <<"a">>, 1, <<<<"x", "y", "z">>>>, <<"x", "y", "z">>),
     FunctionInfo(<<"g">>, <<"b">>, 1, <<<<"x", "y", "z">>>>, <<"x", "y", "z">>),
     FunctionInfo(<<"f">>, <<"a">>, 9, <<<<"x", "y", "q", "q">>>>, <<"x", "y", "q", "q">>),
     FunctionInfo(<<"f">>, <<"b">>, 1, <<<<"x", "y", "q", "q">>>>, <<"x", "y", "q", "q">>),
     FunctionInfo(<<"b", "f">>, <<"a">>, 5, <<<<"x", "y", "z", "w">>>>, <<"x", "y", "z", "w">>),
     FunctionInfo(<<"f">>, <<"a", "b">>, 1, <<<<"x", "y", "z">>>>, <<"x", "y", "z">>),
     FunctionInfo(<<"p">>, <<"c">>, 1, <<<<"t", "i", "d", "e">>>>, <<"t", "i", "d", "e">>),
     FunctionInfo(<<"q">>, <<"c">>, 5, <<<<"d", "i", "e", "t">>>>, <<"d", "i", "e", "t">>)}

\* the longest list of functions given to find_duplicates directly
MaxFunctions == 3

\* the thresholds: the default 0.8, and 1.0 and 0.5
DefaultThreshold == <<8, 10>>
Thresholds == {DefaultThreshold, <<1, 1>>, <<1, 2>>}

InitDup ==
    /\ ScanIdle
    /\ NoAnalyzer
    /\ bad_rule = NoRule
    /\ ImpIdle
    /\ HmIdle
    /\ DpIdle
    /\ \E t \in Thresholds :
          \/ \E fns \in SeqsUpTo(ShortFunctions, MaxFunctions) :
                dup = [pc |-> "loop", sources |-> <<>>, functions |-> fns, threshold |-> t,
                       i |-> 1, j |-> 2, seen |-> {}, compared |-> <<>>, yielded |-> <<>>]
          \/ \E s1 \in Sources, s2 \in Sources :
                dup = [pc |-> "extract",
                       sources |-> <<[file |-> <<"a">>, source |-> s1],
                                     [file |-> <<"b">>, source |-> s2]>>,
                       functions |-> <<>>, threshold |-> t,
                       i |-> 1, j |-> 2, seen |-> {}, compared |-> <<>>, yielded |-> <<>>]

\* extract_functions on each file, the lists put together
ExtractFunctions ==
    /\ dup.pc = "extract"
    /\ dup' = [dup EXCEPT
                 !.functions =
                     extract_functions(dup.sources[1].file, dup.sources[1].source)
                     \o extract_functions(dup.sources[2].file, dup.sources[2].source),
                 !.pc = "loop"]
    /\ UNCHANGED <<detector_vars, scan_vars, walk_vars, bad_rule, imp, hm, dp>>

\* one turn of the inner loop of find_duplicates, on functions[i] and
\* functions[j]
FindDuplicatesStep ==
    /\ dup.pc = "loop"
    /\ dup.j <= Len(dup.functions)
    /\ LET func_a == dup.functions[dup.i]
           func_b == dup.functions[dup.j]
           key    == pair_key(func_a, func_b)
           skip   == \/ func_a.file = func_b.file /\ func_a.name = func_b.name
                     \/ in_seen(key, dup.seen)
           r      == ratio(func_a.normalized, func_b.normalized)
           last   == dup.j = Len(dup.functions)
       IN  dup' = [dup EXCEPT
                     !.seen = IF func_a.file = func_b.file /\ func_a.name = func_b.name
                              THEN dup.seen ELSE dup.seen \cup {key},
                     !.compared = IF skip THEN dup.compared
                                  ELSE Append(dup.compared, <<dup.i, dup.j>>),
                     !.yielded = IF ~skip /\ at_least(r, dup.threshold)
                                 THEN Append(dup.yielded, DuplicatePair(func_a, func_b, r))
                                 ELSE dup.yielded,
                     !.i = IF last THEN dup.i + 1 ELSE dup.i,
                     !.j = IF last THEN dup.i + 2 ELSE dup.j + 1]
    /\ UNCHANGED <<detector_vars, scan_vars, walk_vars, bad_rule, imp, hm, dp>>

\* the loops of find_duplicates are over
FindDuplicatesReturn ==
    /\ dup.pc = "loop"
    /\ dup.j > Len(dup.functions)
    /\ dup' = [dup EXCEPT !.pc = "done"]
    /\ UNCHANGED <<detector_vars, scan_vars, walk_vars, bad_rule, imp, hm, dp>>

NextDup == ExtractFunctions \/ FindDuplicatesStep \/ FindDuplicatesReturn

SpecDup == InitDup /\ [][NextDup]_vars

(***************************************************************************)
(* Properties.                                                             *)
(***************************************************************************)
Count(s, Test(_)) == Cardinality({i \in 1..Len(s) : Test(s[i])})

RECURSIVE Flatten(_)
Flatten(ss) == IF ss = <<>> THEN <<>> ELSE Head(ss) \o Flatten(Tail(ss))

\* the ranking critical > high > medium > low
Rank(sev) ==
    CASE sev = "critical" -> 3
      [] sev = "high" -> 2
      [] sev = "medium" -> 1
      [] sev = "low" -> 0

Finished == pc \in {"filter", "sort", "returned"}

\* the candidate files that were read and parsed
ParsedCandidates ==
    SelectSeq(candidates, LAMBDA f : /\ should_scan(f, ignore_patterns, include_patterns)
                                     /\ fs[f].status = "ok")

FailedCandidates ==
    SelectSeq(candidates, LAMBDA f : /\ should_scan(f, ignore_patterns, include_patterns)
                                     /\ fs[f].status # "ok")

ContentsOf(files) == [k \in 1..Len(files) |-> <<files[k], fs[files[k]].text>>]

\* C1: no finding returned by scan carries a rule id of the disabled set,
\* the walker's deep_nesting finding included
C1_NoDisabledFinding ==
    pc = "returned" => \A i \in 1..Len(result) : result[i].pattern_id \notin disabled_patterns

\* two findings in the order of the output
InOrder(a, b) ==
    \/ Rank(a.severity) > Rank(b.severity)
    \/ Rank(a.severity) = Rank(b.severity) /\ a.file < b.file
    \/ Rank(a.severity) = Rank(b.severity) /\ a.file = b.file /\ a.line <= b.line

\* C2: in the list scan returns, each adjacent pair of findings is in order
\* (severity descending, then file ascending, then line ascending)
C2_OutputSorted ==
    pc = "returned" => \A k \in 1..(Len(result) - 1) : InOrder(result[k], result[k + 1])

\* a scan whose findings were collected out of order, over two files and
\* several severities
C2_Witness ==
    /\ pc = "returned"
    /\ result # filter_issues(collected, min_severity_level)
    /\ \E i, j \in 1..Len(result) :
          /\ result[i].severity = result[j].severity
          /\ result[i].file # result[j].file
    /\ \E i, j \in 1..Len(result) :
          /\ result[i].severity = result[j].severity
          /\ result[i].file = result[j].file
          /\ result[i].line # result[j].line
    /\ \E i, j \in 1..Len(result) : result[i].severity # result[j].severity

\* C3: the output of scan is, as a multiset, the collected findings whose
\* severity rank is at least the floor; with the floor "low" nothing is removed
C3_FilterExact ==
    pc = "returned" =>
        /\ SeqToBag(result)
             = SeqToBag(SelectSeq(collected,
                                  LAMBDA i : Rank(i.severity) >= min_severity_level))
        /\ (min_severity = "low" => Len(result) = Len(collected))

\* a scan with the floor "high" that drops some findings and keeps others
C3_Witness ==
    /\ pc = "returned"
    /\ min_severity = "high"
    /\ Len(result) > 0
    /\ Len(result) < Len(collected)
    /\ \E i \in 1..Len(collected) : collected[i].severity = "medium"

RECURSIVE NestDepth(_, _)
\* the number of nested blocks on the path from the root to node n, n included
NestDepth(tree, n) ==
    IF n = 0 THEN 0
    ELSE (IF tree[n].kind \in {"If", "For", "While", "With", "Try"} THEN 1 ELSE 0)
         + NestDepth(tree, Parent(tree, n))

\* what a walk of a tree is to report, when no rule raises: for each node in
\* preorder the deep nesting finding, then the findings of the rules run on it
ExpectedNodeIssues(tree, n, pats, file) ==
    (IF tree[n].kind \in {"If", "For", "While", "With", "Try"} /\ NestDepth(tree, n) > 4
     THEN <<[pattern_id |-> "deep_nesting", severity |-> "medium", axis |-> "style",
             file |-> file, line |-> NodeLine(tree[n]), column |-> NodeCol(tree[n]),
             message |-> <<"Code nested", NestDepth(tree, n),
                           "levels deep - consider refactoring">>]>>
     ELSE <<>>)
    \o (IF tree[n].kind \in DispatchedKinds
        THEN LET rs == SelectSeq(pats, LAMBDA r :
                          /\ r.has_check_node
                          /\ (r.node_types = {} \/ tree[n].kind \in r.node_types)
                          /\ r.id \in tree[n].hits)
             IN  [k \in 1..Len(rs) |-> create_issue_from_node(rs[k], tree[n], file)]
        ELSE <<>>)

ExpectedWalk(tree, pats, file) ==
    Flatten([n \in 1..Len(tree) |-> ExpectedNodeIssues(tree, n, pats, file)])

\* the findings of the per-file phase for a file that was read and parsed
ExpectedFileIssues(f) ==
    LET c  == Parse(fs[f].text)
        lp == SelectSeq(patterns, LAMBDA r : r.has_check_line)
    IN  ExpectedWalk(c.tree, patterns, f)
        \o Flatten([k \in 1..Len(lp) |-> check_lines_from(lp[k], c.lines, 1, f)])
        \o file_level(f, c, disabled_patterns)

\* what a scan of these files, all read and parsed, collects
ExpectedCollected(files) ==
    LET with_text == SelectSeq(files, LAMBDA f : fs[f].text # "")
    IN  Flatten([k \in 1..Len(files) |-> ExpectedFileIssues(files[k])])
        \o (IF "duplicate_code" \notin disabled_patterns /\ Len(with_text) > 1
            THEN find_cross_file_duplicates(ContentsOf(with_text)) ELSE <<>>)

\* C4: a candidate file that cannot be read, decoded or parsed does not make
\* scan raise, contributes no finding of any kind and no content to the
\* cross-file pass, and the findings collected are those of a scan of the
\* other candidates alone
C4_FailingFileIsolated ==
    /\ pc = "raised" => fs[cur_file].status = "ok"
    /\ \A k \in 1..Len(file_contents) : fs[file_contents[k][1]].status = "ok"
    /\ \A i \in 1..Len(issues) : fs[issues[i].file].status = "ok"
    /\ pc \in {"sort", "returned"} => collected = ExpectedCollected(ParsedCandidates)

\* C5: a rule that raises in check_node or check_line does not end the walk
\* of the file, and the scan of a file that was read and parsed does not end
\* with an exception: scan still returns
C5_RuleFailureContained ==
    /\ an_pc # "raised"
    /\ pc = "raised" => fs[cur_file].status # "ok"

\* the candidates whose content scan hands to the cross-file pass
WithContent == SelectSeq(ParsedCandidates, LAMBDA f : fs[f].text # "")

\* C6 as claimed: whenever duplicate_code is not disabled the cross-file pass
\* has run exactly once when the loop is over, on the content of every file
\* that was read and parsed, whatever their number
C6_CrossFileAlwaysOnce ==
    (Finished /\ "duplicate_code" \notin disabled_patterns) =>
        /\ Len(cross_runs) = 1
        /\ cross_runs[1] = ContentsOf(ParsedCandidates)

\* C6, amended: the cross-file pass runs at most once, only after the
\* per-file analysis of the last candidate file; it runs when duplicate_code
\* is not disabled and at least two candidates were read and parsed with a
\* non-empty text, and then on the content of every such candidate; otherwise
\* it does not run
C6_CrossFileAfterLoop ==
    /\ Len(cross_runs) <= 1
    /\ cross_runs # <<>> =>
          /\ Finished
          /\ work = <<>>
          /\ path_i > Len(paths)
          /\ an_pc = "none"
    /\ Finished =>
          cross_runs = IF "duplicate_code" \notin disabled_patterns /\ Len(WithContent) >= 2
                       THEN <<ContentsOf(WithContent)>> ELSE <<>>

\* a finished scan whose cross-file pass ran on two files, next to a failing
\* candidate and an empty one
C6_Witness ==
    /\ pc = "returned"
    /\ Len(cross_runs) = 1
    /\ Len(cross_runs[1]) = 2
    /\ Len(FailedCandidates) > 0 \/ Len(ParsedCandidates) > Len(WithContent)

\* the number of times check_node of rule r was invoked on node n
Invocations(n, r) == Count(calls, LAMBDA c : c = <<n, r.id>>)

\* C7: in a walk, on every node of a dispatched kind each rule that has
\* check_node is invoked once if its node_types is empty or contains the
\* node's kind, and never otherwise: never more often while the walk runs,
\* and exactly so often when analyze returns
C7_DispatchExact ==
    an_pc \in {"walking", "returned", "raised"} =>
        \A n \in 1..Len(an_tree) : \A k \in 1..Len(an_patterns) :
            LET r    == an_patterns[k]
                due  == /\ an_tree[n].kind \in
                            {"FunctionDef", "AsyncFunctionDef", "ClassDef", "ExceptHandler",
                             "Import", "ImportFrom", "Call", "Attribute",
                             "If", "For", "While", "With", "Try"}
                        /\ r.has_check_node
                        /\ (r.node_types = {} \/ an_tree[n].kind \in r.node_types)
            IN  /\ Invocations(n, r) <= (IF due THEN 1 ELSE 0)
                /\ an_pc = "returned" => Invocations(n, r) = (IF due THEN 1 ELSE 0)

\* a finished walk with a call below a class on which a rule reported, both
\* of them inside nested blocks
C7_Witness ==
    /\ an_pc = "returned"
    /\ \E c, n \in 1..Len(an_tree) :
          /\ an_tree[n].kind = "Call"
          /\ an_tree[n].level >= 3
          /\ c = Parent(an_tree, n)
          /\ an_tree[c].kind = "ClassDef"
          /\ \E i \in 1..Len(an_issues) :
                an_issues[i].line = an_tree[c].line /\ an_issues[i].pattern_id = "any_node"
          /\ Invocations(n, DebugPrint) = 1
          /\ Invocations(n, AnyNodePattern) = 1

\* the positions in an_issues of the deep nesting findings of node n
DeepAt(n) == {i \in 1..Len(an_issues) :
                 /\ an_issues[i].pattern_id = "deep_nesting"
                 /\ an_issues[i].line = an_tree[n].line}

\* is node m the node n or below it
RECURSIVE Below(_, _, _)
Below(tree, m, n) == m # 0 /\ (m = n \/ Below(tree, Parent(tree, m), n))

\* C8: when analyze returns, there is exactly one deep_nesting finding, of
\* severity medium and stating the depth, for each nested block whose depth
\* exceeds 4, and none for any other node; it stands before the findings of
\* the rules on that node and of its descendants
C8_DeepNestingExact ==
    an_pc = "returned" =>
        /\ \A n \in 2..Len(an_tree) :
              LET d    == NestDepth(an_tree, n)
                  deep == an_tree[n].kind \in {"If", "For", "While", "With", "Try"} /\ d > 4
              IN  /\ Cardinality(DeepAt(n)) = (IF deep THEN 1 ELSE 0)
                  /\ \A i \in DeepAt(n) :
                        /\ an_issues[i].severity = "medium"
                        /\ an_issues[i].message[2] = d
                        /\ \A j \in 1..Len(an_issues) :
                              (/\ j # i
                               /\ \E m \in 2..Len(an_tree) :
                                     /\ Below(an_tree, m, n)
                                     /\ an_issues[j].line = an_tree[m].line)
                              => i < j
        /\ Count(an_issues, LAMBDA i : i.pattern_id = "deep_nesting")
             = Cardinality({n \in 2..Len(an_tree) :
                               /\ an_tree[n].kind \in {"If", "For", "While", "With", "Try"}
                               /\ NestDepth(an_tree, n) > 4})

\* a finished walk with a block at depth 4 and blocks at depth 5 and 6, the
\* deepest with a finding of a rule on it
C8_Witness ==
    /\ an_pc = "returned"
    /\ \E n \in 2..Len(an_tree) :
          /\ an_tree[n].kind = "While"
          /\ NestDepth(an_tree, n) = 5
          /\ Cardinality(DeepAt(n)) = 1
          /\ \E j \in 1..Len(an_issues) :
                an_issues[j].pattern_id = "any_node" /\ an_issues[j].line = an_tree[n].line
          /\ \E m \in 2..Len(an_tree) : m > n /\ Below(an_tree, m, n)
    /\ \E n \in 2..Len(an_tree) : NestDepth(an_tree, n) = 4 /\ DeepAt(n) = {}

\* was the probe of the host environment made, and did it raise
ProbeRaised ==
    /\ imp.pc = "done"
    /\ imp.module[1] \notin STDLIB_MODULES
    /\ (imp.name \in {None, ""} \/ check_known_hallucination(imp.module, imp.name) = None)
    /\ FindSpecRaises(imp.find_spec)

\* C9: when the module-existence probe raises, validate_import returns no
\* error message, as for a valid import
C9_ProbeErrorSuppressed == ProbeRaised => imp.result = <<None>>

\* C10: a (module, symbol) pair stored in KNOWN_HALLUCINATIONS with the value
\* None is never flagged: validate_import returns None for it
C10_NoneEntryNeverFlagged ==
    (/\ imp.pc = "done"
     /\ \E e \in KNOWN_HALLUCINATIONS :
           e.module = imp.module /\ e.name = imp.name /\ e.name # None /\ e.value = None)
    => imp.result = <<None>>

\* the stored value of a table entry, or "absent" when the table has no such key
Stored(module, name) ==
    IF \E e \in KNOWN_HALLUCINATIONS : e.module = module /\ e.name = name
    THEN <<(CHOOSE e \in KNOWN_HALLUCINATIONS : e.module = module /\ e.name = name).value>>
    ELSE <<"absent">>

\* the first of the three checks that flags: the exact entry, the wildcard
\* entry of the module, the probe
FirstFlag(module, name, outcome) ==
    LET exact    == IF name = None THEN <<"absent">> ELSE Stored(module, name)
        wildcard == Stored(module, None)
    IN  IF exact \notin {<<"absent">>, <<None>>} THEN exact
        ELSE IF wildcard \notin {<<"absent">>, <<None>>} THEN wildcard
        ELSE IF ~module_exists(<<module[1]>>, outcome) THEN DoesNotExist(module)
        ELSE <<None>>

\* C11: validate_import returns what the first flagging check of the three
\* gives (exact table entry, then the module's wildcard entry, then the
\* probe), with or without a symbol and whether or not the module resolves;
\* pairs stored with the value None are left to C10
C11_ChecksInOrder ==
    (/\ imp.pc = "done"
     /\ (imp.name = None \/ Stored(imp.module, imp.name) # <<None>>))
    => imp.result = FirstFlag(imp.module, imp.name, imp.find_spec)

\* C12: check_hallucinated_method returns None for a name the table does not
\* hold or holds with the replacement None; for every other name it returns
\* the message made of the name and the entry's hint, and that hint is a
\* non-empty string; calls with one name return one result
C12_MethodLookupExact ==
    hm.pc = "call" =>
        \A k \in 1..Len(hm.results) :
            LET r     == hm.results[k]
                items == {i \in 1..Len(HALLUCINATED_METHODS_ITEMS) :
                             HALLUCINATED_METHODS_ITEMS[i].name = hm.name}
            IN  /\ r = hm.results[1]
                /\ items = {} => r = <<None>>
                /\ items # {} =>
                      LET last == HALLUCINATED_METHODS_ITEMS[
                                      CHOOSE i \in items : \A j \in items : j <= i]
                      IN  IF last.correct = None THEN r = <<None>>
                          ELSE /\ Len(r) = 4
                               /\ r[2] = hm.name
                               /\ r[4] = last.hint
                               /\ r[4] \notin {None, ""}

\* two calls made with a name the table holds twice, flagged with the hint of
\* its later item
C12_Witness ==
    /\ hm.pc = "call"
    /\ Len(hm.results) = 2
    /\ hm.name = "trim"
    /\ hm.results[2] = <<"'", "trim", "' is not a Python method. ",
                         "Use str.strip() - PHP pattern">>

\* the calls check_node of DebugPrint has been run on
Checked == IF dp.pc \in {"check", "done"} THEN SubSeq(dp.nodes, 1, dp.k - 1) ELSE <<>>

BarePrint(node) == node.kind = "Call" /\ node.func.is_name /\ node.func.id = "print"

\* has the call a debug_print finding at its line and column
Flagged(node) ==
    \E i \in 1..Len(dp.issues) :
        /\ dp.issues[i].pattern_id = "debug_print"
        /\ dp.issues[i].line = node.line
        /\ dp.issues[i].column = node.col

\* a main-guard line: its stripped text starts with if __name__ and contains
\* __main__
MainGuard(line) == line.text = GuardText

\* a function or class definition line that is not indented
TopLevelDefinition(line) ==
    line.indent = "" /\ line.text \in {"def run():", "async def run():", "class Job:"}

NoCliContext ==
    /\ dp.file.name \notin {"cli.py", "__main__.py", "main.py", "console.py", "commands.py"}
    /\ \A k \in 1..Len(dp.file.parents) :
          dp.file.parents[k] \notin {"scripts", "bin", "cli", "commands"}
    /\ \A k \in 1..Len(dp.source_lines) :
          dp.source_lines[k].text \notin {"import click", "from rich import print",
                                          "import firebase", "# from argparse docs"}

C14_DefinitionFirstNotSuppressed ==
    \A k \in 1..Len(Checked) :
        LET node == Checked[k]
            ends == {l \in 1..(node.line - 1) :
                        \/ MainGuard(dp.source_lines[l])
                        \/ TopLevelDefinition(dp.source_lines[l])}
        IN  (/\ BarePrint(node)
             /\ NoCliContext
             /\ ends # {}
             /\ TopLevelDefinition(dp.source_lines[CHOOSE l \in ends : \A m \in ends : m <= l]))
            => Flagged(node)

\* C15: in a file with no CLI name, no CLI directory above it, no CLI import
\* text and no main guard, the debug_print findings are, in order, one for
\* each call of the bare name print, at the line and column of the call, and
\* none for any other call
C15_OneFindingPerPrint ==
    (/\ dp.pc \in {"check", "done"}
     /\ NoCliContext
     /\ \A l \in 1..Len(dp.source_lines) : ~MainGuard(dp.source_lines[l]))
    => LET prints == SelectSeq(Checked, BarePrint) IN
       /\ Len(dp.issues) = Len(prints)
       /\ \A i \in 1..Len(dp.issues) :
             /\ dp.issues[i].pattern_id = "debug_print"
             /\ dp.issues[i].line = prints[i].line
             /\ dp.issues[i].column = prints[i].col

\* all four calls of such a file checked: two findings, on the lines of the
\* two prints, below a line that only looks like a guard
C15_Witness ==
    /\ dp.pc = "done"
    /\ NoCliContext
    /\ dp.source_lines[2].text = GuardLikeText
    /\ Len(dp.issues) = 2
    /\ dp.issues[1].line = dp.nodes[1].line
    /\ dp.issues[2].line = dp.nodes[4].line
    /\ dp.issues[1].line # dp.issues[2].line

\* C16: a file whose name is a CLI file name, or with a CLI directory name
\* among its ancestors, or whose text contains import X or from X for a CLI
\* framework X, gets no finding from DebugPrint.check_node on any call
C16_CliContextSuppresses ==
    (/\ dp.pc \in {"check", "done"}
     /\ \/ dp.file.name \in {"cli.py", "__main__.py", "main.py", "console.py", "commands.py"}
        \/ \E k \in 1..Len(dp.file.parents) :
              dp.file.parents[k] \in {"scripts", "bin", "cli", "commands"}
        \/ \E k \in 1..Len(dp.source_lines) :
              dp.source_lines[k].text \in {"import click", "from rich import print",
                                           "import firebase", "# from argparse docs"})
    => dp.issues = <<>>

\* the four calls checked in a file that only a directory two levels up makes
\* a CLI file: no guard, no CLI name, no CLI import text, and no finding
C16_Witness ==
    /\ dp.pc = "done"
    /\ dp.file = [name |-> "app.py", parents |-> <<"tools", "bin", "">>]
    /\ dp.source_lines[1].text = "import os"
    /\ \A l \in 1..Len(dp.source_lines) : ~MainGuard(dp.source_lines[l])
    /\ dp.issues = <<>>

\* the yielded pairs made of the two functions, in either order
YieldedFor(x, y) ==
    {k \in 1..Len(dup.yielded) : {dup.yielded[k].func_a, dup.yielded[k].func_b} = {x, y}}

\* C17: find_duplicates yields a pair for every two distinct functions of
\* its list whose similarity ratio is at least the threshold, and for no two
\* functions whose ratio is below it, also when the two share file and name
\* or when another pair with the same key was compared before
C17_EveryPairCompared ==
    dup.pc = "done" =>
        /\ \A i, j \in 1..Len(dup.functions) :
              (/\ i < j
               /\ dup.functions[i] # dup.functions[j]
               /\ at_least(ratio(dup.functions[i].normalized, dup.functions[j].normalized),
                           dup.threshold))
              => YieldedFor(dup.functions[i], dup.functions[j]) # {}
        /\ \A k \in 1..Len(dup.yielded) :
              at_least(ratio(dup.yielded[k].func_a.normalized,
                             dup.yielded[k].func_b.normalized), dup.threshold)

\* C18: among the pairs yielded so far no two are made of the same two
\* functions, in the same or in the other order, no pair has one function
\* record as both members, and no two functions are compared twice
C18_PairsYieldedOnce ==
    dup.pc \in {"loop", "done"} =>
        /\ \A k \in 1..Len(dup.yielded) :
              /\ dup.yielded[k].func_a # dup.yielded[k].func_b
              /\ YieldedFor(dup.yielded[k].func_a, dup.yielded[k].func_b) = {k}
        /\ \A m, n \in 1..Len(dup.compared) :
              {dup.functions[dup.compared[m][1]], dup.functions[dup.compared[m][2]]}
                = {dup.functions[dup.compared[n][1]], dup.functions[dup.compared[n][2]]}
              => m = n

\* a finished run on a list that holds one function record twice around
\* another one: the two are compared once and yielded once
C18_Witness ==
    /\ dup.pc = "done"
    /\ Len(dup.functions) = 3
    /\ dup.functions[1] = dup.functions[3]
    /\ dup.functions[1] # dup.functions[2]
    /\ dup.compared = <<(<<1, 2>>)>>
    /\ Len(dup.yielded) = 1
    /\ dup.yielded[1].similarity = <<6, 6>>

\* the functions of the two files that have one body, byte for byte, under
\* two names: their definition nodes
Twins ==
    IF dup.sources = <<>> THEN {}
    ELSE LET s1 == dup.sources[1].source
             s2 == dup.sources[2].source
         IN  {p \in (1..Len(s1.defs)) \X (1..Len(s2.defs)) :
                 /\ s1.defs[p[1]].name # s2.defs[p[2]].name
                 /\ SubSeq(s1.lines, s1.defs[p[1]].lineno + 1, s1.defs[p[1]].end_lineno)
                      = SubSeq(s2.lines, s2.defs[p[2]].lineno + 1, s2.defs[p[2]].end_lineno)}

\* the yielded pairs made of the functions of these names of the two files
YieldedForNames(name1, name2) ==
    {k \in 1..Len(dup.yielded) :
        LET x == dup.yielded[k].func_a
            y == dup.yielded[k].func_b
        IN  \/ /\ x.file = dup.sources[1].file /\ x.name = name1
               /\ y.file = dup.sources[2].file /\ y.name = name2
            \/ /\ y.file = dup.sources[1].file /\ y.name = name1
               /\ x.file = dup.sources[2].file /\ x.name = name2}

\* the normalized text of the function of a definition node
NormalizedOf(source, node) ==
    normalize_function(SubSeq(source.lines, node.lineno, node.end_lineno))

C20_EqualTextsScoreOne ==
    (dup.pc = "done" /\ dup.threshold = DefaultThreshold) =>
        /\ \A i, j \in 1..Len(dup.functions) :
              (/\ i < j
               /\ \/ dup.functions[i].file # dup.functions[j].file
                  \/ dup.functions[i].name # dup.functions[j].name
               /\ dup.functions[i].normalized = dup.functions[j].normalized)
              => \E k \in YieldedFor(dup.functions[i], dup.functions[j]) :
                    dup.yielded[k].similarity[1] = dup.yielded[k].similarity[2]
        /\ \A k \in 1..Len(dup.yielded) :
              dup.yielded[k].similarity[1] = dup.yielded[k].similarity[2]
              => dup.yielded[k].func_a.normalized = dup.yielded[k].func_b.normalized

\* C21: the similarity is symmetric: every pair find_duplicates compared has
\* the same ratio in the other order, so it is yielded, and with that score,
\* exactly when it would be with the two functions in the other order
C21_SimilaritySymmetric ==
    dup.pc = "done" =>
        /\ \A m \in 1..Len(dup.compared) :
              LET func_a == dup.functions[dup.compared[m][1]]
                  func_b == dup.functions[dup.compared[m][2]]
              IN  /\ ratio(func_a.normalized, func_b.normalized)
                       = ratio(func_b.normalized, func_a.normalized)
                  /\ (YieldedFor(func_a, func_b) # {})
                       <=> at_least(ratio(func_b.normalized, func_a.normalized), dup.threshold)
        /\ \A k \in 1..Len(dup.yielded) :
              dup.yielded[k].similarity
                 = ratio(dup.yielded[k].func_b.normalized, dup.yielded[k].func_a.normalized)

\* the functions extract_functions returned for a definition node of a file
InfosOf(file, node) ==
    {k \in 1..Len(dup.functions) :
        /\ dup.functions[k].file = file
        /\ dup.functions[k].name = node.name
        /\ dup.functions[k].line = node.lineno}

\* C22: extract_functions returns one FunctionInfo for every function whose
\* normalized text has 50 or more characters and none for a shorter one, and
\* no function below 50 characters is a member of a yielded pair
C22_CutoffAtFifty ==
    (dup.pc \in {"loop", "done"} /\ dup.sources # <<>>) =>
        /\ \A s \in 1..Len(dup.sources) :
              \A d \in 1..Len(dup.sources[s].source.defs) :
                 LET node == dup.sources[s].source.defs[d]
                     n    == NormalizedOf(dup.sources[s].source, node)
                 IN  Cardinality(InfosOf(dup.sources[s].file, node))
                        = (IF Len(n) >= 50 THEN 1 ELSE 0)
        /\ \A k \in 1..Len(dup.yielded) :
              /\ Len(dup.yielded[k].func_a.normalized) >= 50
              /\ Len(dup.yielded[k].func_b.normalized) >= 50

\* the lines of a function's text, stripped, without those a test drops,
\* joined by newlines
StrippedLines(lines) == [k \in 1..Len(lines) |-> str_strip(lines[k])]

IsBlank(stripped) == stripped = <<>>

IsComment(stripped) == stripped # <<>> /\ stripped[1] = "#"

IsBareDelimiter(stripped) == stripped \in {<<"\"", "\"", "\"">>, <<"'", "'", "'">>}

StartsWithDelimiter(stripped) ==
    /\ Len(stripped) >= 3
    /\ SubSeq(stripped, 1, 3) \in {<<"\"", "\"", "\"">>, <<"'", "'", "'">>}

\* C23 as claimed: the normalized text of every extracted function is its
\* lines, stripped, in order and joined by newlines, without the blank lines,
\* the comment lines and the lines that are only a docstring delimiter
C23_OnlyBareDelimitersDropped ==
    \A k \in 1..Len(dup.functions) :
        dup.sources # <<>> =>
            dup.functions[k].normalized =
                join_lines(SelectSeq(StrippedLines(dup.functions[k].source),
                    LAMBDA t : ~IsBlank(t) /\ ~IsComment(t) /\ ~IsBareDelimiter(t)))

\* C23, amended: the lines dropped are the blank lines, the comment lines and
\* every line whose stripped text starts with three double or three single
\* quotes, whatever follows them; every other line is kept, the inner lines
\* of a docstring of several lines included
C23_TripleQuoteLinesDropped ==
    \A k \in 1..Len(dup.functions) :
        dup.sources # <<>> =>
            dup.functions[k].normalized =
                join_lines(SelectSeq(StrippedLines(dup.functions[k].source),
                    LAMBDA t : ~IsBlank(t) /\ ~IsComment(t) /\ ~StartsWithDelimiter(t)))

\* extracted: a function with a docstring on one line, and a function with a
\* docstring of three lines, a comment and a blank line
C23_Witness ==
    /\ dup.pc = "done"
    /\ \E k \in 1..Len(dup.functions) :
          \E t \in {str_strip(dup.functions[k].source[m]) : m \in 1..Len(dup.functions[k].source)} :
             StartsWithDelimiter(t) /\ ~IsBareDelimiter(t)
    /\ \E k \in 1..Len(dup.functions) :
          LET ts == {str_strip(dup.functions[k].source[m]) : m \in 1..Len(dup.functions[k].source)}
          IN  /\ \E t \in ts : IsBareDelimiter(t)
              /\ \E t \in ts : IsComment(t)
              /\ \E t \in ts : IsBlank(t)
              /\ <<"S", "u", "m", ".">> \in ts
              /\ Len(dup.functions[k].normalized) = 51

\* C24: the findings of the per-file phase depend on the file and the
\* configuration only: between two files the findings scan has gathered are
\* those of each candidate read and parsed so far, each as it is reported
\* when the file is scanned alone, in the order of the scans; and a walk
\* starts at nesting depth 0 with no finding
C24_PerFileIndependent ==
    /\ pc = "loop" =>
          issues = Flatten([k \in 1..Len(ParsedCandidates) |->
                               ExpectedFileIssues(ParsedCandidates[k])])
    /\ an_pc = "constructed" => (nesting_depth = 0 /\ an_issues = <<>> /\ visit_stack = <<>>)

\* a file scanned before and after another one, with findings for both
C24_Witness ==
    /\ pc = "loop"
    /\ bad_rule = NoRule
    /\ ParsedCandidates = <<1, 2, 1>>
    /\ ExpectedFileIssues(1) # <<>>
    /\ ExpectedFileIssues(2) # <<>>
    /\ Len(issues) = 2 * Len(ExpectedFileIssues(1)) + Len(ExpectedFileIssues(2))
    /\ \E k \in 1..Len(issues) : issues[k].pattern_id = "deep_nesting"

\* the place a finding is reported for
Location(i) == <<i.pattern_id, i.file, i.line, i.column>>

\* C25: no two findings of the output of scan have the same rule id, file,
\* line and column, also when the path list names a file more than once
C25_OneFindingPerLocation ==
    pc = "returned" =>
        \A i, j \in 1..Len(result) : Location(result[i]) = Location(result[j]) => i = j

\* C26: a minimum severity that is none of the four names, such as HIGH,
\* gives the floor 0 of 'low': scan returns every finding it collected
C26_UnknownSeverityIsLowest ==
    min_severity \notin {"low", "medium", "high", "critical"} =>
        /\ min_severity_level = 0
        /\ pc = "returned" =>
              /\ Len(result) = Len(collected)
              /\ SeqToBag(result) = SeqToBag(collected)

\* a scan with the floor HIGH that returned findings of low and of medium
\* severity
C26_Witness ==
    /\ pc = "returned"
    /\ min_severity = "HIGH"
    /\ \E i \in 1..Len(result) : result[i].severity = "low"
    /\ \E i \in 1..Len(result) : result[i].severity = "medium"
    /\ \E i \in 1..Len(result) : result[i].severity = "critical"

\* the ids a disable list can act on: those of the catalog and of the three
\* analyzers
KnownIds ==
    {AllPatterns[k].id : k \in 1..Len(AllPatterns)}
    \cup {"unused_import", "dead_code", "duplicate_code"}

\* the catalog without the rules of these ids
CatalogWithout(ids) == SelectSeq(AllPatterns, LAMBDA p : p.id \notin ids)

\* what scan collects from these files under a disable list
ExpectedFileIssuesUnder(f, ids) ==
    LET c  == Parse(fs[f].text)
        lp == SelectSeq(CatalogWithout(ids), LAMBDA r : r.has_check_line)
    IN  ExpectedWalk(c.tree, CatalogWithout(ids), f)
        \o Flatten([k \in 1..Len(lp) |-> check_lines_from(lp[k], c.lines, 1, f)])
        \o (IF "unused_import" \in ids THEN <<>> ELSE find_unused_imports(f, c))
        \o (IF "dead_code" \in ids THEN <<>> ELSE find_dead_code(f, c))

ExpectedCollectedUnder(files, ids) ==
    LET with_text == SelectSeq(files, LAMBDA f : fs[f].text # "")
    IN  Flatten([k \in 1..Len(files) |-> ExpectedFileIssuesUnder(files[k], ids)])
        \o (IF "duplicate_code" \notin ids /\ Len(with_text) > 1
            THEN find_cross_file_duplicates(ContentsOf(with_text)) ELSE <<>>)

\* C27: the enabled rules are the catalog without the rules whose id is in
\* the disable list, and an id of the list that is no id of the catalog nor
\* of the three analyzers changes nothing: the rules enabled and the findings
\* scan collects and returns are those of the list without it
C27_DisableByExactId ==
    /\ patterns = CatalogWithout(disabled_patterns)
    /\ patterns = CatalogWithout(disabled_patterns \cap KnownIds)
    /\ pc = "returned" =>
          /\ collected = ExpectedCollectedUnder(ParsedCandidates, disabled_patterns \cap KnownIds)
          /\ SeqToBag(result) = SeqToBag(filter_issues(collected, min_severity_level))

\* a scan with a rule and an unknown id disabled: the other rules reported
C27_Witness ==
    /\ pc = "returned"
    /\ disabled_patterns = {"debug_print", "no_such_rule"}
    /\ Len(patterns) = Len(AllPatterns) - 1
    /\ \E i \in 1..Len(result) : result[i].pattern_id = "debug_breakpoint"
    /\ \A i \in 1..Len(result) : result[i].pattern_id # "debug_print"
    /\ Len(ParsedCandidates) = 2

\* the name an import statement binds, and the imports of a file that bind a name
BoundBy(m) ==
    IF m.asname # "" THEN m.asname ELSE IF m.name # "" THEN m.name ELSE m.module[1]

TrackedImports(f) ==
    LET ims == Parse(fs[f].text).imports
    IN  {ims[k] : k \in {k \in 1..Len(ims) : ims[k].name # "*"}}

\* the number of uses of a name in a file, of any kind
UsesOf(f, name) ==
    Cardinality({k \in 1..Len(Parse(fs[f].text).uses) : Parse(fs[f].text).uses[k].name = name})

C29_DepthCountsOpenBlocks ==
    /\ nesting_depth >= 0
    /\ (an_pc = "walking" /\ visit_stack # <<>>) =>
          /\ nesting_depth = NestDepth(an_tree, Last(visit_stack).node)
          /\ nesting_depth =
                Cardinality({k \in 1..Len(visit_stack) :
                                an_tree[visit_stack[k].node].kind
                                   \in {"If", "For", "While", "With", "Try"}})
    /\ an_pc \in {"constructed", "returned"} => nesting_depth = 0

\* the walk is inside a loop of a function or class that stands in two
\* nested blocks: the depth is 3
C29_Witness ==
    /\ an_pc = "walking"
    /\ visit_stack # <<>>
    /\ nesting_depth = 3
    /\ an_tree[Last(visit_stack).node].kind = "While"
    /\ an_tree[Parent(an_tree, Last(visit_stack).node)].kind \in {"FunctionDef", "ClassDef"}
    /\ Last(visit_stack).todo = <<>>

\* an If node that is the elif of the If above it: it stands in that If's
\* else-branch at the same column
IsElif(tree, n) ==
    /\ tree[n].kind = "If"
    /\ Parent(tree, n) # 0
    /\ tree[Parent(tree, n)].kind = "If"
    /\ tree[n].col = tree[Parent(tree, n)].col

RECURSIVE LexicalDepth(_, _)
\* the nesting of blocks as written: the blocks open around node n, n
\* included, the branches of one if / elif chain counted once
LexicalDepth(tree, n) ==
    IF n = 0 THEN 0
    ELSE (IF tree[n].kind \in {"If", "For", "While", "With", "Try"} /\ ~IsElif(tree, n)
          THEN 1 ELSE 0)
         + LexicalDepth(tree, Parent(tree, n))

\* C30: a deep_nesting finding stands only on a block whose nesting as
\* written is above 4: the branches of an if / elif chain are at one depth,
\* and a flat chain at module level gives no such finding
C30_ElifChainIsFlat ==
    \A i \in 1..Len(an_issues) :
        an_issues[i].pattern_id = "deep_nesting" =>
            \E n \in 1..Len(an_tree) :
                /\ NodeLine(an_tree[n]) = an_issues[i].line
                /\ LexicalDepth(an_tree, n) > 4

=============================================================================
